---- MODULE Spec2Model ----
(***************************************************************************)
(* Model of the AI-FinancePilot analytics engines: the keyword categorizer *)
(* (expense_categorizer.py), the alert engine (smart_alerts.py), the       *)
(* predictive engine (predictive_analytics.py), the health scorer          *)
(* (financial_health.py) and the goal engine (goal_tracker.py).            *)
(*                                                                         *)
(* Text is modelled as a sequence of one-character strings so that         *)
(* lower-casing, trimming and substring search are computed, not assumed.  *)
(* Money is modelled in whole currency units; every ratio or z-score       *)
(* comparison of the source is evaluated exactly by cross-multiplication.  *)
(***************************************************************************)
EXTENDS Integers, Sequences, FiniteSets, TLC

\* ------------------------------------------------------------------------
\* Bounds of the model
\* ------------------------------------------------------------------------

\* Largest number of words in a transaction description typed by the user.
MaxWords == 2

\* Largest number of goals kept in the session.
MaxGoals == 1

\* Number of midnights that pass during the session.
MaxDays == 2

\* Largest number of months of transactions in an uploaded table.
MaxMonths == 12

\* Largest number of months of a table whose spending departs from the
\* usual amount.
MaxSpikes == 1

\* Largest number of months of history uploaded before a forecast.
MaxHistory == 4

\* Largest number of months in a table handed to the alert engine.
MaxAlertMonths == 4

\* Largest number of categories given a budget.
MaxBudgets == 2

\* Largest number of months in a table handed to the health scorer.
MaxHealthMonths == 3

\* Largest number of months in a table shown on the goals tab.
MaxPlanMonths == 2

\* Largest number of transactions of the present month in a table shown
\* on the calendar tab.
MaxCalendarRows == 2

\* Largest number of months in a table of a session that is run again.
MaxSessionMonths == 2

\* The months a table with a year of history covers, at most.
MaxSeasonMonths == 13

\* Largest number of months in a short history.
MaxShortMonths == 5

\* Largest number of rows in an uploaded file.
MaxRawRows == 1

\* Largest number of months in a table handed to the engines.
MaxFrameMonths == 3

\* Largest number of answers kept in the memory of the conversation handler.
MaxMemory == 2

\* Months covered by the calendar.
CalendarMonths == 36

\* ------------------------------------------------------------------------
\* Text helpers (str.lower, str.strip, the `in` substring operator)
\* ------------------------------------------------------------------------

UpperChars ==
  <<"A", "B", "C", "D", "E", "F", "G", "H", "I", "J", "K", "L", "M",
    "N", "O", "P", "Q", "R", "S", "T", "U", "V", "W", "X", "Y", "Z">>

LowerChars ==
  <<"a", "b", "c", "d", "e", "f", "g", "h", "i", "j", "k", "l", "m",
    "n", "o", "p", "q", "r", "s", "t", "u", "v", "w", "x", "y", "z">>

\* str.lower() on one character.
LowerChar(c) ==
  IF \E i \in 1..Len(UpperChars) : UpperChars[i] = c
  THEN LowerChars[CHOOSE i \in 1..Len(UpperChars) : UpperChars[i] = c]
  ELSE c

\* The list with the given elements, built once.
AsList(f) == SubSeq(f, 1, Len(f))

\* str.lower()
Lower(s) == AsList([i \in 1..Len(s) |-> LowerChar(s[i])])

\* str.strip(): drop leading and trailing blanks.
Strip(s) ==
  IF \A i \in 1..Len(s) : s[i] = " "
  THEN << >>
  ELSE LET first == CHOOSE i \in 1..Len(s) :
                      s[i] # " " /\ \A j \in 1..(i - 1) : s[j] = " "
           last  == CHOOSE i \in 1..Len(s) :
                      s[i] # " " /\ \A j \in (i + 1)..Len(s) : s[j] = " "
       IN  SubSeq(s, first, last)

\* Python `keyword in text`: unanchored substring search.
Contains(text, keyword) ==
  \E i \in 1..(Len(text) - Len(keyword) + 1) :
     SubSeq(text, i, i + Len(keyword) - 1) = keyword

\* any(keyword in text for keyword in keywords)
ContainsAny(text, keywords) ==
  \E k \in 1..Len(keywords) : Contains(text, keywords[k])

\* ------------------------------------------------------------------------
\* Categorizer (expense_categorizer.py)
\* ------------------------------------------------------------------------

\* ExpenseCategorizer.categories
categories ==
  <<"Food & Dining", "Transportation", "Shopping", "Bills & Utilities",
    "Entertainment", "Health & Medical", "Travel", "Education",
    "Insurance", "Investment", "Income", "Transfer", "Other">>

\* ExpenseCategorizer.keyword_mappings, in insertion order.
keyword_mappings ==
  <<
    [category |-> "Food & Dining", keywords |-> <<
        <<"r", "e", "s", "t", "a", "u", "r", "a", "n", "t">>,
        <<"c", "a", "f", "e">>,
        <<"f", "o", "o", "d">>,
        <<"d", "i", "n", "i", "n", "g">>,
        <<"p", "i", "z", "z", "a">>,
        <<"b", "u", "r", "g", "e", "r">>,
        <<"s", "t", "a", "r", "b", "u", "c", "k", "s">>,
        <<"m", "c", "d", "o", "n", "a", "l", "d">>,
        <<"s", "u", "b", "w", "a", "y">>,
        <<"g", "r", "o", "c", "e", "r", "y">>,
        <<"m", "a", "r", "k", "e", "t">>,
        <<"s", "u", "p", "e", "r", "m", "a", "r", "k", "e", "t">>,
        <<"u", "b", "e", "r", " ", "e", "a", "t", "s">>,
        <<"d", "o", "o", "r", "d", "a", "s", "h">>,
        <<"g", "r", "u", "b", "h", "u", "b">>,
        <<"d", "e", "l", "i", "v", "e", "r", "y">>,
        <<"t", "a", "k", "e", "o", "u", "t">>
    >>],
    [category |-> "Transportation", keywords |-> <<
        <<"g", "a", "s">>,
        <<"f", "u", "e", "l">>,
        <<"u", "b", "e", "r">>,
        <<"l", "y", "f", "t">>,
        <<"t", "a", "x", "i">>,
        <<"b", "u", "s">>,
        <<"t", "r", "a", "i", "n">>,
        <<"m", "e", "t", "r", "o">>,
        <<"p", "a", "r", "k", "i", "n", "g">>,
        <<"t", "o", "l", "l">>,
        <<"c", "a", "r">>,
        <<"v", "e", "h", "i", "c", "l", "e">>,
        <<"a", "u", "t", "o">>,
        <<"m", "e", "c", "h", "a", "n", "i", "c">>,
        <<"t", "i", "r", "e">>
    >>],
    [category |-> "Shopping", keywords |-> <<
        <<"a", "m", "a", "z", "o", "n">>,
        <<"w", "a", "l", "m", "a", "r", "t">>,
        <<"t", "a", "r", "g", "e", "t">>,
        <<"m", "a", "l", "l">>,
        <<"s", "t", "o", "r", "e">>,
        <<"r", "e", "t", "a", "i", "l">>,
        <<"c", "l", "o", "t", "h", "i", "n", "g">>,
        <<"s", "h", "o", "e", "s">>,
        <<"e", "l", "e", "c", "t", "r", "o", "n", "i", "c", "s">>,
        <<"b", "o", "o", "k", "s">>,
        <<"h", "o", "m", "e", " ", "d", "e", "p", "o", "t">>,
        <<"l", "o", "w", "e", "s">>
    >>],
    [category |-> "Bills & Utilities", keywords |-> <<
        <<"e", "l", "e", "c", "t", "r", "i", "c">>,
        <<"e", "l", "e", "c", "t", "r", "i", "c", "i", "t", "y">>,
        <<"g", "a", "s", " ", "b", "i", "l", "l">>,
        <<"w", "a", "t", "e", "r">>,
        <<"i", "n", "t", "e", "r", "n", "e", "t">>,
        <<"p", "h", "o", "n", "e">>,
        <<"c", "a", "b", "l", "e">>,
        <<"s", "u", "b", "s", "c", "r", "i", "p", "t", "i", "o", "n">>,
        <<"n", "e", "t", "f", "l", "i", "x">>,
        <<"s", "p", "o", "t", "i", "f", "y">>,
        <<"u", "t", "i", "l", "i", "t", "y">>,
        <<"b", "i", "l", "l">>
    >>],
    [category |-> "Entertainment", keywords |-> <<
        <<"m", "o", "v", "i", "e">>,
        <<"c", "i", "n", "e", "m", "a">>,
        <<"t", "h", "e", "a", "t", "e", "r">>,
        <<"c", "o", "n", "c", "e", "r", "t">>,
        <<"g", "a", "m", "e">>,
        <<"s", "p", "o", "r", "t">>,
        <<"g", "y", "m">>,
        <<"f", "i", "t", "n", "e", "s", "s">>,
        <<"n", "e", "t", "f", "l", "i", "x">>,
        <<"s", "p", "o", "t", "i", "f", "y">>,
        <<"e", "n", "t", "e", "r", "t", "a", "i", "n", "m", "e", "n", "t">>,
        <<"c", "l", "u", "b">>,
        <<"b", "a", "r">>
    >>],
    [category |-> "Health & Medical", keywords |-> <<
        <<"d", "o", "c", "t", "o", "r">>,
        <<"h", "o", "s", "p", "i", "t", "a", "l">>,
        <<"p", "h", "a", "r", "m", "a", "c", "y">>,
        <<"m", "e", "d", "i", "c", "a", "l">>,
        <<"h", "e", "a", "l", "t", "h">>,
        <<"d", "e", "n", "t", "a", "l">>,
        <<"v", "i", "s", "i", "o", "n">>,
        <<"c", "l", "i", "n", "i", "c">>,
        <<"p", "r", "e", "s", "c", "r", "i", "p", "t", "i", "o", "n">>,
        <<"m", "e", "d", "i", "c", "i", "n", "e">>,
        <<"c", "v", "s">>,
        <<"w", "a", "l", "g", "r", "e", "e", "n", "s">>
    >>],
    [category |-> "Travel", keywords |-> <<
        <<"a", "i", "r", "l", "i", "n", "e">>,
        <<"f", "l", "i", "g", "h", "t">>,
        <<"h", "o", "t", "e", "l">>,
        <<"a", "i", "r", "b", "n", "b">>,
        <<"r", "e", "n", "t", "a", "l", " ", "c", "a", "r">>,
        <<"v", "a", "c", "a", "t", "i", "o", "n">>,
        <<"t", "r", "a", "v", "e", "l">>,
        <<"b", "o", "o", "k", "i", "n", "g">>,
        <<"e", "x", "p", "e", "d", "i", "a">>,
        <<"t", "r", "i", "p">>,
        <<"r", "e", "s", "o", "r", "t">>
    >>],
    [category |-> "Education", keywords |-> <<
        <<"s", "c", "h", "o", "o", "l">>,
        <<"u", "n", "i", "v", "e", "r", "s", "i", "t", "y">>,
        <<"c", "o", "l", "l", "e", "g", "e">>,
        <<"t", "u", "i", "t", "i", "o", "n">>,
        <<"e", "d", "u", "c", "a", "t", "i", "o", "n">>,
        <<"b", "o", "o", "k">>,
        <<"c", "o", "u", "r", "s", "e">>,
        <<"t", "r", "a", "i", "n", "i", "n", "g">>,
        <<"c", "e", "r", "t", "i", "f", "i", "c", "a", "t", "i", "o", "n">>
    >>],
    [category |-> "Insurance", keywords |-> <<
        <<"i", "n", "s", "u", "r", "a", "n", "c", "e">>,
        <<"p", "r", "e", "m", "i", "u", "m">>,
        <<"p", "o", "l", "i", "c", "y">>,
        <<"c", "o", "v", "e", "r", "a", "g", "e">>,
        <<"d", "e", "d", "u", "c", "t", "i", "b", "l", "e">>
    >>],
    [category |-> "Investment", keywords |-> <<
        <<"i", "n", "v", "e", "s", "t", "m", "e", "n", "t">>,
        <<"s", "t", "o", "c", "k">>,
        <<"b", "o", "n", "d">>,
        <<"m", "u", "t", "u", "a", "l", " ", "f", "u", "n", "d">>,
        <<"4", "0", "1", "k">>,
        <<"i", "r", "a">>,
        <<"r", "e", "t", "i", "r", "e", "m", "e", "n", "t">>,
        <<"s", "a", "v", "i", "n", "g", "s">>,
        <<"d", "i", "v", "i", "d", "e", "n", "d">>,
        <<"b", "r", "o", "k", "e", "r", "a", "g", "e">>
    >>],
    [category |-> "Income", keywords |-> <<
        <<"s", "a", "l", "a", "r", "y">>,
        <<"p", "a", "y", "r", "o", "l", "l">>,
        <<"w", "a", "g", "e">>,
        <<"b", "o", "n", "u", "s">>,
        <<"r", "e", "f", "u", "n", "d">>,
        <<"c", "a", "s", "h", "b", "a", "c", "k">>,
        <<"d", "e", "p", "o", "s", "i", "t">>,
        <<"p", "a", "y", "m", "e", "n", "t", " ", "r", "e", "c", "e", "i", "v", "e", "d">>,
        <<"i", "n", "c", "o", "m", "e">>
    >>],
    [category |-> "Transfer", keywords |-> <<
        <<"t", "r", "a", "n", "s", "f", "e", "r">>,
        <<"a", "t", "m">>,
        <<"w", "i", "t", "h", "d", "r", "a", "w", "a", "l">>,
        <<"d", "e", "p", "o", "s", "i", "t">>,
        <<"c", "h", "e", "c", "k">>,
        <<"w", "i", "r", "e">>,
        <<"p", "a", "y", "m", "e", "n", "t", " ", "t", "o">>,
        <<"s", "e", "n", "d", " ", "m", "o", "n", "e", "y">>
    >>]
  >>

\* income_keywords of _categorize_by_keywords
income_keywords ==
  << <<"s", "a", "l", "a", "r", "y">>,
     <<"p", "a", "y", "r", "o", "l", "l">>,
     <<"d", "e", "p", "o", "s", "i", "t">>,
     <<"r", "e", "f", "u", "n", "d">>,
     <<"c", "a", "s", "h", "b", "a", "c", "k">>,
     <<"d", "i", "v", "i", "d", "e", "n", "d">> >>

\* A scan in which the last matching entry wins instead of the first.
ScanMappingsLastWins(mappings, description_lower, i) ==
  LET hits == {j \in i..Len(mappings) :
                 ContainsAny(description_lower, mappings[j].keywords)}
  IN  IF hits = {} THEN "Other"
      ELSE mappings[CHOOSE j \in hits : \A k \in hits : k <= j].category

\* The scan `for category, keywords in self.keyword_mappings.items()`,
\* from entry i on: the first entry with a matching keyword wins, and
\* 'Other' is returned when the loop ends without a match.
ScanMappings(mappings, description_lower, i) ==
  LET hits == {j \in i..Len(mappings) :
                 ContainsAny(description_lower, mappings[j].keywords)}
  IN  IF hits = {} THEN "Other"
      ELSE mappings[CHOOSE j \in hits : \A k \in hits : j <= k].category

\* A categorizer whose income shortcut forgets the `amount > 0` test.
CategorizeByKeywordsAnyAmount(description, amount) ==
  LET description_lower == Lower(description)
  IN  IF ContainsAny(description_lower, income_keywords)
      THEN "Income"
      ELSE ScanMappings(keyword_mappings, description_lower, 1)

\* ExpenseCategorizer._categorize_by_keywords
CategorizeByKeywords(description, amount) ==
  LET description_lower == Lower(description)
  IN  IF amount > 0 /\ ContainsAny(description_lower, income_keywords)
      THEN "Income"
      ELSE ScanMappings(keyword_mappings, description_lower, 1)

\* ExpenseCategorizer._categorize_single_transaction; self.classifier is
\* None (set by _initialize_classifier), so the transformer branch is dead.
CategorizeSingleTransaction(description, amount) ==
  LET d == Strip(Lower(description))
      keyword_category == CategorizeByKeywords(d, amount)
  IN  IF keyword_category # "Other" THEN keyword_category ELSE "Other"

\* ------------------------------------------------------------------------
\* Exact fractions (the source computes in floating point)
\* ------------------------------------------------------------------------

Abs(x) == IF x < 0 THEN -x ELSE x

RECURSIVE GCD(_, _)
GCD(a, b) == IF b = 0 THEN a ELSE GCD(b, a % b)

\* The fraction n/d, d > 0, in lowest terms.
Frac(n, d) ==
  LET g == GCD(Abs(n), d)
  IN  [num |-> n \div g, den |-> d \div g]

FracGE(x, y) == x.num * y.den >= y.num * x.den

FracGT(x, y) == x.num * y.den > y.num * x.den

\* ------------------------------------------------------------------------
\* Goal engine (goal_tracker.py)
\* ------------------------------------------------------------------------

\* progress = (current / target * 100) if target > 0 else 0
ProgressPercentage(current, target) ==
  IF target > 0 THEN Frac(current * 100, target) ELSE Frac(0, 1)

\* A status function that tests the deadline before the completion.
GetGoalStatusDeadlineFirst(current, target, days_remaining) ==
  LET progress_pct == ProgressPercentage(current, target)
  IN  IF days_remaining < 0 THEN "Overdue"
      ELSE IF days_remaining < 30 THEN "Critical"
      ELSE IF FracGE(progress_pct, Frac(100, 1)) THEN "Completed"
      ELSE IF FracGE(progress_pct, Frac(75, 1)) THEN "On Track"
      ELSE IF FracGE(progress_pct, Frac(50, 1)) THEN "Behind"
      ELSE "Far Behind"

\* GoalTracker._get_goal_status
GetGoalStatus(current, target, days_remaining) ==
  LET progress_pct == ProgressPercentage(current, target)
  IN  IF FracGE(progress_pct, Frac(100, 1)) THEN "Completed"
      ELSE IF days_remaining < 0 THEN "Overdue"
      ELSE IF days_remaining < 30 THEN "Critical"
      ELSE IF FracGE(progress_pct, Frac(75, 1)) THEN "On Track"
      ELSE IF FracGE(progress_pct, Frac(50, 1)) THEN "Behind"
      ELSE "Far Behind"

\* months_remaining = max(1, days_remaining / 30.44)
MonthsRemaining(days_remaining) ==
  IF days_remaining * 100 <= 3044 THEN Frac(1, 1)
  ELSE Frac(days_remaining * 100, 3044)

\* A required saving that is not clamped at zero.
MonthlySavingsNeededSigned(target_amount, current_amount, months_remaining) ==
  Frac((target_amount - current_amount) * months_remaining.den,
       months_remaining.num)

\* monthly_savings_needed = max(0, (target - current) / months_remaining)
MonthlySavingsNeeded(target_amount, current_amount, months_remaining) ==
  IF target_amount - current_amount <= 0 THEN Frac(0, 1)
  ELSE Frac((target_amount - current_amount) * months_remaining.den,
            months_remaining.num)

\* GoalTracker.create_goal called on day `day`
CreateGoalRecord(name, target_amount, target_date, goal_type, current, day) ==
  LET days_remaining == target_date - day
      months_remaining == MonthsRemaining(days_remaining)
  IN  [name |-> name,
       type |-> goal_type,
       target_amount |-> target_amount,
       current_amount |-> current,
       target_date |-> target_date,
       days_remaining |-> days_remaining,
       months_remaining |-> months_remaining,
       monthly_savings_needed |->
         MonthlySavingsNeeded(target_amount, current, months_remaining),
       progress_percentage |-> ProgressPercentage(current, target_amount),
       status |-> GetGoalStatus(current, target_amount, days_remaining),
       created_date |-> day]

\* ------------------------------------------------------------------------
\* Calendar (datetime, pandas Period)
\* ------------------------------------------------------------------------

\* Dates are day numbers counted from 1 January of EpochYear; a month is
\* numbered from January of EpochYear (the ordinal of a pandas Period 'M').
EpochYear == 2025

IsLeap(y) == (y % 4 = 0 /\ y % 100 # 0) \/ y % 400 = 0

DaysInMonth(month_year) ==
  LET y == EpochYear + (month_year \div 12)
      m == (month_year % 12) + 1
  IN  IF m = 2 THEN (IF IsLeap(y) THEN 29 ELSE 28)
      ELSE IF m \in {4, 6, 9, 11} THEN 30 ELSE 31

\* Day number of the first day of each month.
MonthStartFrom[m \in 0..(CalendarMonths + 1)] ==
  IF m = 0 THEN 0 ELSE MonthStartFrom[m - 1] + DaysInMonth(m - 1)

\* The same table, tabulated once.
MonthStart == MonthStartFrom @@ << >>

\* datetime(year, month, day), with the month given by its number.
DateOf(month_year, day) == MonthStart[month_year] + day - 1

\* The month of every day of the calendar.
MonthYearTable ==
  [date \in 0..(MonthStart[CalendarMonths + 1] - 1) |->
    CHOOSE m \in 0..CalendarMonths :
      MonthStart[m] <= date /\ date < MonthStart[m + 1]] @@ << >>

\* date.dt.to_period('M') / strftime('%Y-%m')
MonthYear(date) == MonthYearTable[date]

\* date.month
CalendarMonth(date) == (MonthYear(date) % 12) + 1

\* ------------------------------------------------------------------------
\* Table helpers (pandas selections, groupby, sum, mean, std)
\* ------------------------------------------------------------------------

\* df[df['amount'] < 0]
ExpenseRows(rows) == SelectSeq(rows, LAMBDA r : r.amount < 0)

\* df[df['amount'] > 0]
IncomeRows(rows) == SelectSeq(rows, LAMBDA r : r.amount > 0)

\* ['amount'].sum()
RECURSIVE SumAmount(_)
SumAmount(rows) ==
  IF rows = << >> THEN 0 ELSE Head(rows).amount + SumAmount(Tail(rows))

\* sum(values)
RECURSIVE SumSeq(_)
SumSeq(xs) == IF xs = << >> THEN 0 ELSE Head(xs) + SumSeq(Tail(xs))

\* The keys of a groupby, which pandas returns sorted.
RECURSIVE SortedKeys(_)
SortedKeys(keys) ==
  IF keys = {} THEN << >>
  ELSE LET least == CHOOSE k \in keys : \A other \in keys : k <= other
       IN  <<least>> \o SortedKeys(keys \ {least})

\* rows.groupby('month_year')['amount'].sum().abs(), as a sorted series.
MonthlyAbsSum(rows) ==
  LET keys == SortedKeys({rows[i].month_year : i \in 1..Len(rows)})
  IN  AsList([k \in 1..Len(keys) |->
        [month_year |-> keys[k],
         amount |-> Abs(SumAmount(SelectSeq(rows,
                       LAMBDA r : r.month_year = keys[k])))]])

\* series.values
Values(series) == AsList([i \in 1..Len(series) |-> series[i].amount])

\* df['category'].unique(): the labels in order of first appearance.
RECURSIVE UniqueCategories(_)
UniqueCategories(rows) ==
  IF rows = << >> THEN << >>
  ELSE LET init == UniqueCategories(SubSeq(rows, 1, Len(rows) - 1))
           c == rows[Len(rows)].category
       IN  IF \E i \in 1..Len(init) : init[i] = c THEN init
           ELSE Append(init, c)

\* n * sum(x^2) - sum(x)^2 = n * (n - 1) * var(x) for the sample variance
\* (pandas std and var use ddof = 1).
ScaledVariance(xs) ==
  Len(xs) * SumSeq([i \in 1..Len(xs) |-> xs[i] * xs[i]])
    - SumSeq(xs) * SumSeq(xs)

\* The values divided by their greatest common divisor; ratios such as
\* z-scores and coefficients of variation do not depend on the unit.
RECURSIVE GCDSeq(_)
GCDSeq(xs) == IF xs = << >> THEN 0 ELSE GCD(Head(xs), GCDSeq(Tail(xs)))

Reduced(x, xs) == IF GCDSeq(xs) = 0 THEN x ELSE x \div GCDSeq(xs)

ReducedSeq(xs) ==
  LET g == GCDSeq(xs)
  IN  AsList([i \in 1..Len(xs) |-> IF g = 0 THEN xs[i] ELSE xs[i] \div g])

\* ------------------------------------------------------------------------
\* Predictive engine (predictive_analytics.py)
\* ------------------------------------------------------------------------

\* A z-score that divides by the population deviation (ddof = 0).
ZScoreExceedsPopulation(value, xs, a, b) ==
  LET x == Reduced(value, xs)
      ys == ReducedSeq(xs)
      n == Len(ys)
      q == ScaledVariance(ys)
      dev == n * x - SumSeq(ys)
  IN  /\ q > 0
      /\ b * b * dev * dev * n > a * a * n * q

\* A z-score that divides by the standard error std / sqrt(n).
ZScoreExceedsStandardError(value, xs, a, b) ==
  LET x == Reduced(value, xs)
      ys == ReducedSeq(xs)
      n == Len(ys)
      q == ScaledVariance(ys)
      dev == n * x - SumSeq(ys)
  IN  /\ q > 0
      /\ b * b * dev * dev * (n - 1) * n > a * a * n * q

\* z_score = abs(amount - mean) / std if std > 0 else 0, compared with the
\* threshold a/b: z_score > a/b.
ZScoreExceeds(value, xs, a, b) ==
  LET x == Reduced(value, xs)
      ys == ReducedSeq(xs)
      n == Len(ys)
      q == ScaledVariance(ys)
      dev == n * x - SumSeq(ys)
  IN  /\ q > 0
      /\ b * b * dev * dev * (n - 1) > a * a * n * q

\* f"{z_score:.1f}": the z-score rounded to tenths, as a number of tenths.
ZScoreTenths(value, xs) ==
  LET x == Reduced(value, xs)
      ys == ReducedSeq(xs)
      n == Len(ys)
      q == ScaledVariance(ys)
      dev == n * x - SumSeq(ys)
  IN  IF q <= 0 THEN 0
      ELSE CHOOSE r \in 0..(10 * n) :
             /\ (r = 0 \/
                 (2 * r - 1) * (2 * r - 1) * n * q
                    <= 400 * dev * dev * (n - 1))
             /\ 400 * dev * dev * (n - 1)
                    < (2 * r + 1) * (2 * r + 1) * n * q

\* The anomalies of one monthly series against the threshold a/b.
RECURSIVE SeriesAnomalies(_, _, _, _, _, _)
SeriesAnomalies(series, i, kind, label, a, b) ==
  IF i > Len(series) THEN << >>
  ELSE LET xs == Values(series)
           rest == SeriesAnomalies(series, i + 1, kind, label, a, b)
       IN  IF ZScoreExceeds(series[i].amount, xs, a, b)
           THEN << [type |-> kind,
                    category |-> label,
                    month |-> series[i].month_year,
                    amount |-> series[i].amount,
                    deviation |-> ZScoreTenths(series[i].amount, xs),
                    severity |->
                      IF ZScoreExceeds(series[i].amount, xs, 3, 1)
                      THEN "high" ELSE "medium"] >> \o rest
           ELSE rest

\* The loop over df['category'].unique() of detect_spending_anomalies.
RECURSIVE CategoryAnomalies(_, _, _)
CategoryAnomalies(rows, cats, i) ==
  IF i > Len(cats) THEN << >>
  ELSE LET category_data ==
             SelectSeq(rows,
                       LAMBDA r : r.category = cats[i] /\ r.amount < 0)
           monthly_category == MonthlyAbsSum(category_data)
       IN  (IF Len(monthly_category) >= 3
            THEN SeriesAnomalies(monthly_category, 1, "category_spending",
                                 cats[i], 5, 2)
            ELSE << >>)
           \o CategoryAnomalies(rows, cats, i + 1)

\* An anomaly detector whose whole-portfolio threshold is 1.5.
DetectSpendingAnomaliesLowThreshold(rows) ==
  LET monthly_spending == MonthlyAbsSum(ExpenseRows(rows))
  IN  (IF Len(monthly_spending) >= 3
       THEN SeriesAnomalies(monthly_spending, 1, "monthly_spending", "",
                            3, 2)
       ELSE << >>)
      \o CategoryAnomalies(rows, UniqueCategories(rows), 1)

\* PredictiveAnalytics.detect_spending_anomalies; a monthly_spending entry
\* has no category key, shown here as the label "".
DetectSpendingAnomalies(rows) ==
  LET monthly_spending == MonthlyAbsSum(ExpenseRows(rows))
  IN  (IF Len(monthly_spending) >= 3
       THEN SeriesAnomalies(monthly_spending, 1, "monthly_spending", "",
                            2, 1)
       ELSE << >>)
      \o CategoryAnomalies(rows, UniqueCategories(rows), 1)

\* range(len(monthly_data)): the sample points 0 .. n - 1 of np.polyfit
Months(n) == AsList([i \in 1..n |-> i - 1])

\* sum(x * y) over two lists of equal length
DotProduct(xs, ys) == SumSeq(AsList([i \in 1..Len(xs) |-> xs[i] * ys[i]]))

\* np.polyfit(months, spending_values, 1)[0]: the least-squares slope
TrendSlope(ys) ==
  LET n == Len(ys)
      xs == Months(n)
  IN  Frac(n * DotProduct(xs, ys) - SumSeq(xs) * SumSeq(ys),
           n * DotProduct(xs, xs) - SumSeq(xs) * SumSeq(xs))

\* np.polyfit(months, spending_values, 1)[1]: the least-squares intercept
TrendIntercept(ys) ==
  LET n == Len(ys)
      slope == TrendSlope(ys)
  IN  Frac(SumSeq(ys) * slope.den - slope.num * SumSeq(Months(n)),
           n * slope.den)

\* seasonal_factors of _get_seasonal_factor, in hundredths
seasonal_factors ==
  <<90, 95, 100, 105, 100, 110, 115, 110, 100, 105, 120, 130>>

\* PredictiveAnalytics._get_seasonal_factor, in hundredths, called on the
\* day `now`
GetSeasonalFactor(monthly_data, months_ahead, now) ==
  IF Len(monthly_data) < 12 THEN 100
  ELSE LET current_month == CalendarMonth(now)
           future_month == ((current_month + months_ahead - 1) % 12) + 1
       IN  seasonal_factors[future_month]

\* PredictiveAnalytics._calculate_confidence
CalculateConfidence(historical_data) ==
  LET xs == Values(historical_data)
      n == Len(xs)
      q == ScaledVariance(xs)
      total == SumSeq(xs)
  IN  IF n < 3 THEN 60
      ELSE IF total = 0 THEN 50
      ELSE IF 100 * q * n < total * total * (n - 1) THEN 90
      ELSE IF 25 * q * n < total * total * (n - 1) THEN 80
      ELSE IF 100 * q * n < 9 * total * total * (n - 1) THEN 70
      ELSE 60

\* A default prediction that returns no forecast point at all.
DefaultPredictionNoPoints(months_ahead) ==
  [predictions |-> << >>,
   future_months |-> << >>,
   trend_direction |-> "stable",
   monthly_change |-> Frac(0, 1),
   confidence_level |-> 50]

\* PredictiveAnalytics._default_prediction
DefaultPrediction(months_ahead) ==
  [predictions |-> AsList([i \in 1..months_ahead |-> Frac(0, 1)]),
   future_months |-> << >>,
   trend_direction |-> "stable",
   monthly_change |-> Frac(0, 1),
   confidence_level |-> 50]

\* The value of the fitted line at index k, times the seasonal factor,
\* floored at 0: max(0, predicted_value * seasonal_factor).
AdjustedPrediction(slope, intercept, k, factor) ==
  LET num == (slope.num * k * intercept.den + intercept.num * slope.den)
               * factor
      den == slope.den * intercept.den * 100
  IN  IF num <= 0 THEN Frac(0, 1) ELSE Frac(num, den)

\* PredictiveAnalytics.predict_future_spending called on the day `now`
PredictFutureSpending(rows, months_ahead, now) ==
  LET monthly_data == MonthlyAbsSum(ExpenseRows(rows))
      spending_values == Values(monthly_data)
      trend_slope == TrendSlope(spending_values)
      trend_intercept == TrendIntercept(spending_values)
      last_month_idx == Len(monthly_data)
      last_date == monthly_data[Len(monthly_data)].month_year
  IN  IF Len(monthly_data) < 2 THEN DefaultPrediction(months_ahead)
      ELSE [predictions |->
              AsList([i \in 1..months_ahead |->
                AdjustedPrediction(trend_slope, trend_intercept,
                                   last_month_idx + i,
                                   GetSeasonalFactor(monthly_data, i, now))]),
            future_months |->
              AsList([i \in 1..months_ahead |-> last_date + i]),
            trend_direction |->
              IF trend_slope.num > 0 THEN "increasing" ELSE "decreasing",
            monthly_change |-> Frac(Abs(trend_slope.num), trend_slope.den),
            confidence_level |-> CalculateConfidence(monthly_data)]

\* ------------------------------------------------------------------------
\* Alert engine (smart_alerts.py)
\* ------------------------------------------------------------------------

\* The characters of the descriptions in code point order, which is the
\* order pandas sorts the keys of groupby('description') by.
CodePoints == <<" ", "&">> \o UpperChars \o LowerChars

CodePoint(c) == CHOOSE i \in 1..Len(CodePoints) : CodePoints[i] = c

\* s < t for two strings
StringLess(s, t) ==
  \E k \in 1..(Len(t)) :
    /\ k <= Len(s) + 1
    /\ \A j \in 1..(k - 1) : s[j] = t[j]
    /\ (k = Len(s) + 1 \/ CodePoint(s[k]) < CodePoint(t[k]))

\* The keys of groupby('description'), sorted.
RECURSIVE SortedDescriptions(_)
SortedDescriptions(keys) ==
  IF keys = {} THEN << >>
  ELSE LET least == CHOOSE k \in keys :
                      \A other \in keys \ {k} : StringLess(k, other)
       IN  <<least>> \o SortedDescriptions(keys \ {least})

\* The category labels in the order pandas sorts the keys of
\* groupby('category') by.
SortedLabels ==
  <<"Bills & Utilities", "Education", "Entertainment", "Food & Dining",
    "Health & Medical", "Income", "Insurance", "Investment", "Other",
    "Shopping", "Transfer", "Transportation", "Travel">>

\* rows.groupby('category')['amount'].sum().abs(), as a sorted series.
CategoryAbsSum(rows) ==
  LET keys == SelectSeq(SortedLabels,
                LAMBDA c : \E i \in 1..Len(rows) : rows[i].category = c)
  IN  AsList([k \in 1..Len(keys) |->
        [category |-> keys[k],
         amount |-> Abs(SumAmount(SelectSeq(rows,
                       LAMBDA r : r.category = keys[k])))]])

\* `category in series` and series[category]
HasCategory(series, c) == \E i \in 1..Len(series) : series[i].category = c

AtCategory(series, c) ==
  series[CHOOSE i \in 1..Len(series) : series[i].category = c].amount

\* list.extend over the lists of a loop
RECURSIVE Extend(_)
Extend(lists) ==
  IF lists = << >> THEN << >> ELSE Head(lists) \o Extend(Tail(lists))

\* The float inf that spent / budget yields for a budget of 0.0.
Infinity == [num |-> 1, den |-> 0]

\* (spent / budget) * 100
PercentageUsed(spent, budget) ==
  IF budget = 0 THEN Infinity ELSE Frac(spent * 100, budget)

\* A budget check that warns only above 80% of the budget.
CheckBudgetAlertsStrict(current_data, budget_items) ==
  LET current_spending == CategoryAbsSum(ExpenseRows(current_data))
      Alert(item) ==
        LET spent == AtCategory(current_spending, item.category)
            percentage_used == PercentageUsed(spent, item.budget)
            alert(type, severity) ==
              <<[type |-> type, category |-> item.category,
                 severity |-> severity, amount |-> spent,
                 budget |-> item.budget, percentage |-> percentage_used]>>
        IN  IF ~HasCategory(current_spending, item.category) THEN << >>
            ELSE IF FracGE(percentage_used, Frac(100, 1))
              THEN alert("budget_exceeded", "high")
            ELSE IF FracGT(percentage_used, Frac(80, 1))
              THEN alert("budget_warning", "medium")
            ELSE << >>
  IN  Extend(AsList([i \in 1..Len(budget_items) |-> Alert(budget_items[i])]))

\* _check_budget_alerts
CheckBudgetAlerts(current_data, budget_items) ==
  LET current_spending == CategoryAbsSum(ExpenseRows(current_data))
      Alert(item) ==
        LET spent == AtCategory(current_spending, item.category)
            percentage_used == PercentageUsed(spent, item.budget)
            alert(type, severity) ==
              <<[type |-> type, category |-> item.category,
                 severity |-> severity, amount |-> spent,
                 budget |-> item.budget, percentage |-> percentage_used]>>
        IN  IF ~HasCategory(current_spending, item.category) THEN << >>
            ELSE IF FracGE(percentage_used, Frac(100, 1))
              THEN alert("budget_exceeded", "high")
            ELSE IF FracGE(percentage_used, Frac(80, 1))
              THEN alert("budget_warning", "medium")
            ELSE << >>
  IN  Extend(AsList([i \in 1..Len(budget_items) |-> Alert(budget_items[i])]))

\* _check_spending_spikes
CheckSpendingSpikes(rows, current_data) ==
  LET monthly_spending == Values(MonthlyAbsSum(ExpenseRows(rows)))
      n == Len(monthly_spending)
      history == SumSeq(SubSeq(monthly_spending, 1, n - 1))
      current_spending == Abs(SumAmount(ExpenseRows(current_data)))
  IN  IF n < 2 THEN << >>
      ELSE IF 2 * current_spending * (n - 1) > 3 * history
        THEN <<[type |-> "spending_spike",
                severity |->
                  IF current_spending * (n - 1) - history > history
                    THEN "high" ELSE "medium",
                current_amount |-> current_spending,
                average_amount |-> Frac(history, n - 1),
                increase_percentage |->
                  Frac((current_spending * (n - 1) - history) * 100,
                       history)]>>
      ELSE << >>

\* _check_unusual_transactions: z_score > 2.0 for the signed z-score of a
\* transaction of the current month among all expenses; a NaN deviation
\* (fewer than two expenses) compares false.
CheckUnusualTransactions(rows, current_data) ==
  LET transaction_sizes ==
        AsList([i \in 1..Len(ExpenseRows(rows)) |->
                  Abs(ExpenseRows(rows)[i].amount)])
      n == Len(transaction_sizes)
      sizes == ReducedSeq(transaction_sizes)
      q == ScaledVariance(sizes)
      total == SumSeq(sizes)
      current_transactions == ExpenseRows(current_data)
      Alert(transaction) ==
        LET dev == n * Reduced(Abs(transaction.amount), transaction_sizes)
                     - total
        IN  IF dev > 0 /\ dev * dev * (n - 1) > 4 * n * q
              THEN <<[type |-> "unusual_transaction",
                      severity |-> "medium",
                      amount |-> Abs(transaction.amount),
                      description |-> transaction.description,
                      date |-> transaction.date,
                      z_score |-> ZScoreTenths(Abs(transaction.amount),
                                               transaction_sizes)]>>
            ELSE << >>
  IN  IF n < 2 \/ q = 0 THEN << >>
      ELSE Extend(AsList([i \in 1..Len(current_transactions) |->
                            Alert(current_transactions[i])]))

\* _check_category_overspending: the historical average of a category is
\* the mean of its monthly totals over the months it has expenses in.
CheckCategoryOverspending(rows, current_data) ==
  LET current_category_spending == CategoryAbsSum(ExpenseRows(current_data))
      Alert(entry) ==
        LET category_rows == SelectSeq(ExpenseRows(rows),
                               LAMBDA r : r.category = entry.category)
            monthly == Values(MonthlyAbsSum(category_rows))
            months == Len(monthly)
            total == SumSeq(monthly)
            current_amount == entry.amount
        IN  IF 10 * current_amount * months > 13 * total
              THEN <<[type |-> "category_overspend",
                      category |-> entry.category,
                      severity |-> "medium",
                      current_amount |-> current_amount,
                      average_amount |-> Frac(total, months),
                      increase_percentage |->
                        Frac((current_amount * months - total) * 100,
                             total)]>>
            ELSE << >>
  IN  Extend(AsList([i \in 1..Len(current_category_spending) |->
                       Alert(current_category_spending[i])]))

\* _check_trend_alerts
CheckTrendAlerts(rows) ==
  LET monthly_spending == Values(MonthlyAbsSum(ExpenseRows(rows)))
      n == Len(monthly_spending)
      trend_slope == TrendSlope(monthly_spending)
  IN  IF n < 3 THEN << >>
      ELSE IF trend_slope.num * 10 * n
                > SumSeq(monthly_spending) * trend_slope.den
        THEN <<[type |-> "upward_trend", severity |-> "medium",
                trend_slope |-> trend_slope,
                trend_direction |-> "increasing"]>>
      ELSE << >>

\* max of a date column
RECURSIVE MaxDate(_)
MaxDate(rows) ==
  IF Len(rows) = 1 THEN Head(rows).date
  ELSE LET rest == MaxDate(Tail(rows))
       IN  IF Head(rows).date > rest THEN Head(rows).date ELSE rest

\* _check_recurring_expense_alerts: descriptions seen at least 3 times with
\* a sample deviation of the amounts below 10, last seen over 35 days ago.
CheckRecurringExpenseAlerts(rows, now) ==
  LET keys == SortedDescriptions({rows[i].description : i \in 1..Len(rows)})
      Alert(key) ==
        LET group == SelectSeq(rows, LAMBDA r : r.description = key)
            count == Len(group)
            amounts == AsList([i \in 1..count |-> group[i].amount])
            last_occurrence == MaxDate(group)
            days_since == now - last_occurrence
        IN  IF /\ count >= 3
               /\ ScaledVariance(amounts) < 100 * count * (count - 1)
               /\ days_since > 35
              THEN <<[type |-> "missing_recurring", severity |-> "low",
                      description |-> key, days_since |-> days_since,
                      last_occurrence |-> last_occurrence]>>
            ELSE << >>
  IN  Extend(AsList([i \in 1..Len(keys) |-> Alert(keys[i])]))

\* _get_alert_priority
GetAlertPriority(alert_type) ==
  CASE alert_type = "budget_exceeded" -> 10
    [] alert_type = "spending_spike" -> 9
    [] alert_type = "budget_warning" -> 8
    [] alert_type = "unusual_transaction" -> 7
    [] alert_type = "category_overspend" -> 6
    [] alert_type = "upward_trend" -> 5
    [] alert_type = "missing_recurring" -> 3
    [] OTHER -> 1

\* list.sort(key = priority), which is stable: the alerts of the lowest
\* priority first, in the order they were appended.
RECURSIVE SortByPriorityAscending(_, _)
SortByPriorityAscending(list, p) ==
  IF p > 10 THEN << >>
  ELSE SelectSeq(list, LAMBDA a : GetAlertPriority(a.type) = p)
         \o SortByPriorityAscending(list, p + 1)

\* list.sort(key = priority, reverse = True), which is stable: the alerts
\* of the highest priority first, equal ones in the order they were appended.
RECURSIVE SortByPriority(_, _)
SortByPriority(list, p) ==
  IF p < 1 THEN << >>
  ELSE SelectSeq(list, LAMBDA a : GetAlertPriority(a.type) = p)
         \o SortByPriority(list, p - 1)

\* df[df['date'].dt.strftime('%Y-%m') == current_month]
CurrentMonthData(rows, now) ==
  SelectSeq(rows, LAMBDA r : r.month_year = MonthYear(now))

\* The alerts of the six checks of generate_alerts, in the order appended.
CollectAlerts(rows, budget_items, now) ==
  LET current_month_data == CurrentMonthData(rows, now)
  IN  (IF budget_items # << >>
         THEN CheckBudgetAlerts(current_month_data, budget_items)
         ELSE << >>)
        \o CheckSpendingSpikes(rows, current_month_data)
        \o CheckUnusualTransactions(rows, current_month_data)
        \o CheckCategoryOverspending(rows, current_month_data)
        \o CheckTrendAlerts(rows)
        \o CheckRecurringExpenseAlerts(rows, now)

\* alerts[:10]
Top10(list) == SubSeq(list, 1, IF Len(list) < 10 THEN Len(list) ELSE 10)

\* A generate_alerts that sorts by ascending priority.
GenerateAlertsAscending(rows, budget_items, now) ==
  Top10(SortByPriorityAscending(CollectAlerts(rows, budget_items, now), 1))

\* A generate_alerts that returns the alerts in the order appended.
GenerateAlertsUnsorted(rows, budget_items, now) ==
  Top10(CollectAlerts(rows, budget_items, now))

\* generate_alerts
GenerateAlerts(rows, budget_items, now) ==
  Top10(SortByPriority(CollectAlerts(rows, budget_items, now), 10))

\* ------------------------------------------------------------------------
\* Health scorer (financial_health.py)
\* ------------------------------------------------------------------------

\* self.score_weights, in hundredths
score_weights ==
  [savings_rate |-> 25, spending_consistency |-> 20, category_balance |-> 15,
   debt_management |-> 15, income_stability |-> 15, emergency_fund |-> 10]

\* The keys of the scores dict, in the order they are inserted.
ScoreKeys ==
  <<"savings_rate", "spending_consistency", "category_balance",
    "debt_management", "income_stability", "emergency_fund">>

FracAdd(x, y) == Frac(x.num * y.den + y.num * x.den, x.den * y.den)

FracMax(x, y) == IF FracGE(x, y) THEN x ELSE y

FracMin(x, y) == IF FracGE(x, y) THEN y ELSE x

RECURSIVE FracSum(_)
FracSum(xs) ==
  IF xs = << >> THEN Frac(0, 1) ELSE FracAdd(Head(xs), FracSum(Tail(xs)))

\* rows.groupby('month_year')['amount'].sum(), as a sorted list of values
MonthlySum(rows) ==
  LET keys == SortedKeys({rows[i].month_year : i \in 1..Len(rows)})
  IN  AsList([k \in 1..Len(keys) |->
        SumAmount(SelectSeq(rows, LAMBDA r : r.month_year = keys[k]))])

\* std / mean <= a / b for the sample deviation of a series of positive
\* values with at least two entries
VariationAtMost(xs, a, b) ==
  LET ys == ReducedSeq(xs)
      n == Len(ys)
  IN  ScaledVariance(ys) * n * b * b
        <= a * a * SumSeq(ys) * SumSeq(ys) * (n - 1)

\* _calculate_savings_rate_score
CalculateSavingsRateScore(rows) ==
  LET keys == SortedKeys({rows[i].month_year : i \in 1..Len(rows)})
      Rate(m) ==
        LET month == SelectSeq(rows, LAMBDA r : r.month_year = m)
            income == SumAmount(IncomeRows(month))
            expenses == Abs(SumAmount(ExpenseRows(month)))
        IN  IF income > 0
              THEN <<FracMax(Frac(0, 1),
                             Frac((income - expenses) * 100, income))>>
              ELSE << >>
      savings_rates == Extend(AsList([k \in 1..Len(keys) |-> Rate(keys[k])]))
      total == FracSum(savings_rates)
      avg_savings_rate == Frac(total.num, total.den * Len(savings_rates))
  IN  IF savings_rates = << >> THEN 50
      ELSE IF FracGE(avg_savings_rate, Frac(20, 1)) THEN 100
      ELSE IF FracGE(avg_savings_rate, Frac(15, 1)) THEN 85
      ELSE IF FracGE(avg_savings_rate, Frac(10, 1)) THEN 70
      ELSE IF FracGE(avg_savings_rate, Frac(5, 1)) THEN 55
      ELSE IF FracGE(avg_savings_rate, Frac(0, 1)) THEN 40
      ELSE 20

\* _calculate_consistency_score
CalculateConsistencyScore(rows) ==
  LET monthly_expenses == Values(MonthlyAbsSum(ExpenseRows(rows)))
  IN  IF Len(monthly_expenses) < 2 THEN 75
      ELSE IF VariationAtMost(monthly_expenses, 1, 10) THEN 100
      ELSE IF VariationAtMost(monthly_expenses, 2, 10) THEN 85
      ELSE IF VariationAtMost(monthly_expenses, 3, 10) THEN 70
      ELSE IF VariationAtMost(monthly_expenses, 5, 10) THEN 55
      ELSE 40

\* recommended_ratios, in hundredths and in the order of the dict
recommended_ratios ==
  <<[category |-> "Food & Dining", ratio |-> 15],
    [category |-> "Transportation", ratio |-> 15],
    [category |-> "Bills & Utilities", ratio |-> 25],
    [category |-> "Entertainment", ratio |-> 5],
    [category |-> "Shopping", ratio |-> 10],
    [category |-> "Health & Medical", ratio |-> 5]>>

\* min(30, deviation * 200) for deviation = abs(spent / total - ratio / 100)
BalancePenalty(spent, total, ratio) ==
  FracMin(Frac(30, 1), Frac(2 * Abs(100 * spent - ratio * total), total))

\* A balance score that is not kept from falling below 40.
CalculateCategoryBalanceScoreNoFloor(rows) ==
  LET category_spending == CategoryAbsSum(ExpenseRows(rows))
      total_expenses == SumSeq(Values(category_spending))
      Penalty(entry) ==
        IF HasCategory(category_spending, entry.category)
          THEN <<BalancePenalty(AtCategory(category_spending, entry.category),
                                total_expenses, entry.ratio)>>
          ELSE << >>
      penalties == FracSum(Extend(AsList(
                     [k \in 1..Len(recommended_ratios) |->
                        Penalty(recommended_ratios[k])])))
      balance_score == Frac(100 * penalties.den - penalties.num,
                            penalties.den)
  IN  IF total_expenses = 0 THEN Frac(70, 1)
      ELSE balance_score

\* _calculate_category_balance_score
CalculateCategoryBalanceScore(rows) ==
  LET category_spending == CategoryAbsSum(ExpenseRows(rows))
      total_expenses == SumSeq(Values(category_spending))
      Penalty(entry) ==
        IF HasCategory(category_spending, entry.category)
          THEN <<BalancePenalty(AtCategory(category_spending, entry.category),
                                total_expenses, entry.ratio)>>
          ELSE << >>
      penalties == FracSum(Extend(AsList(
                     [k \in 1..Len(recommended_ratios) |->
                        Penalty(recommended_ratios[k])])))
      balance_score == Frac(100 * penalties.den - penalties.num,
                            penalties.den)
  IN  IF total_expenses = 0 THEN Frac(70, 1)
      ELSE FracMax(Frac(40, 1), balance_score)

\* debt_keywords
debt_keywords ==
  <<<<"l", "o", "a", "n">>,
    <<"c", "r", "e", "d", "i", "t", " ", "c", "a", "r", "d">>,
    <<"m", "o", "r", "t", "g", "a", "g", "e">>,
    <<"d", "e", "b", "t">>,
    <<"i", "n", "t", "e", "r", "e", "s", "t">>>>

\* savings_keywords
savings_keywords ==
  <<<<"s", "a", "v", "i", "n", "g", "s">>,
    <<"e", "m", "e", "r", "g", "e", "n", "c", "y">>,
    <<"f", "u", "n", "d">>,
    <<"i", "n", "v", "e", "s", "t", "m", "e", "n", "t">>>>

\* df[df['description'].str.lower().str.contains('|'.join(keywords))]
RowsMentioning(rows, keywords) ==
  SelectSeq(rows, LAMBDA r : ContainsAny(Lower(r.description), keywords))

\* _calculate_debt_management_score
CalculateDebtManagementScore(rows) ==
  LET debt_transactions == RowsMentioning(rows, debt_keywords)
      total_debt_payments == Abs(SumAmount(ExpenseRows(debt_transactions)))
      total_expenses == Abs(SumAmount(ExpenseRows(rows)))
  IN  IF total_expenses = 0 THEN 80
      ELSE IF 10 * total_debt_payments <= 1 * total_expenses THEN 100
      ELSE IF 10 * total_debt_payments <= 2 * total_expenses THEN 85
      ELSE IF 10 * total_debt_payments <= 3 * total_expenses THEN 70
      ELSE IF 10 * total_debt_payments <= 4 * total_expenses THEN 55
      ELSE 40

\* _calculate_income_stability_score
CalculateIncomeStabilityScore(rows) ==
  LET income_data == MonthlySum(IncomeRows(rows))
  IN  IF Len(income_data) < 2 THEN 75
      ELSE IF VariationAtMost(income_data, 1, 20) THEN 100
      ELSE IF VariationAtMost(income_data, 1, 10) THEN 85
      ELSE IF VariationAtMost(income_data, 2, 10) THEN 70
      ELSE IF VariationAtMost(income_data, 3, 10) THEN 55
      ELSE 40

\* _calculate_emergency_fund_score: months_covered is total_savings over
\* the mean monthly expense total; without any expense the mean is NaN,
\* every comparison is false and the score is 20.
CalculateEmergencyFundScore(rows) ==
  LET savings_transactions == RowsMentioning(rows, savings_keywords)
      monthly == Values(MonthlyAbsSum(ExpenseRows(rows)))
      months == Len(monthly)
      expenses == SumSeq(monthly)
      total_savings == SumAmount(IncomeRows(savings_transactions))
  IN  IF months = 0 THEN 20
      ELSE IF expenses = 0 THEN 70
      ELSE IF total_savings * months >= 6 * expenses THEN 100
      ELSE IF total_savings * months >= 3 * expenses THEN 80
      ELSE IF total_savings * months >= 1 * expenses THEN 60
      ELSE IF 2 * total_savings * months >= expenses THEN 40
      ELSE 20

\* _get_grade
GetGrade(score) ==
  IF FracGE(score, Frac(90, 1)) THEN "A+"
  ELSE IF FracGE(score, Frac(85, 1)) THEN "A"
  ELSE IF FracGE(score, Frac(80, 1)) THEN "B+"
  ELSE IF FracGE(score, Frac(75, 1)) THEN "B"
  ELSE IF FracGE(score, Frac(70, 1)) THEN "C+"
  ELSE IF FracGE(score, Frac(65, 1)) THEN "C"
  ELSE IF FracGE(score, Frac(60, 1)) THEN "D+"
  ELSE IF FracGE(score, Frac(55, 1)) THEN "D"
  ELSE "F"

\* round(x, 1) for x >= 0: the nearest tenth, a tie going to the even one
RoundTenths(x) ==
  LET floor == (x.num * 10) \div x.den
      rest == 2 * ((x.num * 10) % x.den)
      tenths == IF rest > x.den \/ (rest = x.den /\ floor % 2 = 1)
                  THEN floor + 1 ELSE floor
  IN  Frac(tenths, 10)

\* sum(scores[key] * self.score_weights[key] for key in scores.keys())
WeightedTotal(scores) ==
  LET total == FracSum(AsList([k \in 1..Len(ScoreKeys) |->
                 Frac(scores[ScoreKeys[k]].num * score_weights[ScoreKeys[k]],
                      scores[ScoreKeys[k]].den)]))
  IN  Frac(total.num, total.den * 100)

\* The exception Series.idxmax raises on an empty series.
ValueError == [raised |-> "ValueError"]

\* sorted(scores.items(), key = lambda x: x[1], reverse = True)[0]: the
\* first of the greatest scores, in the order of the dict.
Strongest(scores) ==
  ScoreKeys[CHOOSE k \in 1..Len(ScoreKeys) :
    /\ \A j \in 1..Len(ScoreKeys) :
         FracGE(scores[ScoreKeys[k]], scores[ScoreKeys[j]])
    /\ \A j \in 1..(k - 1) :
         FracGT(scores[ScoreKeys[k]], scores[ScoreKeys[j]])]

\* sorted(...)[-1]: the last of the least scores, in the order of the dict.
Weakest(scores) ==
  ScoreKeys[CHOOSE k \in 1..Len(ScoreKeys) :
    /\ \A j \in 1..Len(ScoreKeys) :
         FracGE(scores[ScoreKeys[j]], scores[ScoreKeys[k]])
    /\ \A j \in (k + 1)..Len(ScoreKeys) :
         FracGT(scores[ScoreKeys[j]], scores[ScoreKeys[k]])]

\* series.idxmax(): the label of the first greatest value
IdxMax(series) ==
  series[CHOOSE k \in 1..Len(series) :
    /\ \A j \in 1..Len(series) : series[k].amount >= series[j].amount
    /\ \A j \in 1..(k - 1) : series[k].amount > series[j].amount].category

\* _generate_health_insights: what each sentence of the list reports. The
\* largest expense category is taken with idxmax, which raises when the
\* table has no expense.
GenerateHealthInsights(scores, rows) ==
  LET category_spending == CategoryAbsSum(ExpenseRows(rows))
      monthly_spending == Values(MonthlyAbsSum(ExpenseRows(rows)))
      trend ==
        IF monthly_spending[Len(monthly_spending)] > monthly_spending[1]
          THEN "increasing" ELSE "decreasing"
  IN  IF category_spending = << >> THEN ValueError
      ELSE << <<"strongest", Strongest(scores)>>,
              <<"weakest", Weakest(scores)>>,
              <<"largest expense category", IdxMax(category_spending)>> >>
             \o (IF Len(monthly_spending) >= 2
                   THEN << <<"spending trend", trend>> >> ELSE << >>)

\* _generate_improvement_tips: the components the tips are about, or the
\* one sentence of praise.
GenerateImprovementTips(scores) ==
  LET low == SelectSeq(ScoreKeys,
               LAMBDA key : ~FracGE(scores[key], Frac(70, 1)))
  IN  IF low = << >> THEN <<"strong across all areas">> ELSE low

\* calculate_health_score: the grade is taken from the total before it is
\* rounded.
CalculateHealthScore(rows) ==
  LET scores ==
        [savings_rate |-> Frac(CalculateSavingsRateScore(rows), 1),
         spending_consistency |-> Frac(CalculateConsistencyScore(rows), 1),
         category_balance |-> CalculateCategoryBalanceScore(rows),
         debt_management |-> Frac(CalculateDebtManagementScore(rows), 1),
         income_stability |-> Frac(CalculateIncomeStabilityScore(rows), 1),
         emergency_fund |-> Frac(CalculateEmergencyFundScore(rows), 1)]
      total_score == WeightedTotal(scores)
      insights == GenerateHealthInsights(scores, rows)
  IN  IF insights = ValueError THEN ValueError
      ELSE [total_score |-> RoundTenths(total_score),
            component_scores |-> scores,
            grade |-> GetGrade(total_score),
            insights |-> insights,
            improvement_tips |-> GenerateImprovementTips(scores)]

\* ------------------------------------------------------------------------
\* Goal engine: feasibility and savings strategies (goal_tracker.py)
\* ------------------------------------------------------------------------

\* The float nan: the mean of an empty series, and what is computed from it.
NaN == [num |-> 0, den |-> 0]

IsNaN(x) == x.num = 0 /\ x.den = 0

FracSub(x, y) == Frac(x.num * y.den - y.num * x.den, x.den * y.den)

FracMul(x, y) == Frac(x.num * y.num, x.den * y.den)

\* x / y for y > 0
FracDiv(x, y) == Frac(x.num * y.den, x.den * y.num)

\* abs(x); abs(nan) is nan
FracAbs(x) == [num |-> Abs(x.num), den |-> x.den]

\* series.mean(): nan for an empty series
Mean(xs) == IF xs = << >> THEN NaN ELSE Frac(SumSeq(xs), Len(xs))

\* df[df['amount'] > 0].groupby('month_year')['amount'].sum().mean()
MonthlyIncome(rows) == Mean(MonthlySum(IncomeRows(rows)))

\* abs(df[df['amount'] < 0].groupby('month_year')['amount'].sum().mean())
MonthlyExpenses(rows) == FracAbs(Mean(MonthlySum(ExpenseRows(rows))))

\* GoalTracker._calculate_current_savings: max(0, nan) is 0
CalculateCurrentSavings(rows) ==
  LET monthly_income == MonthlyIncome(rows)
      monthly_expenses == MonthlyExpenses(rows)
  IN  IF IsNaN(monthly_income) \/ IsNaN(monthly_expenses) THEN Frac(0, 1)
      ELSE FracMax(Frac(0, 1), FracSub(monthly_income, monthly_expenses))

\* GoalTracker.analyze_goal_feasibility (the recommendation text is not
\* kept). Comparisons with nan are false, max(0, nan) is 0 and max(10, nan)
\* is 10; a numpy float divided by 0 is inf, or nan for 0 / 0.
AnalyzeGoalFeasibility(goal, rows) ==
  LET monthly_income == MonthlyIncome(rows)
      monthly_expenses == MonthlyExpenses(rows)
      current_savings_rate ==
        IF IsNaN(monthly_income) \/ ~FracGT(monthly_income, Frac(0, 1))
          THEN Frac(0, 1)
        ELSE IF IsNaN(monthly_expenses) THEN Frac(0, 1)
        ELSE FracMax(Frac(0, 1),
                     FracDiv(FracSub(monthly_income, monthly_expenses),
                             monthly_income))
      current_monthly_savings ==
        IF IsNaN(monthly_income) THEN NaN
        ELSE FracMul(monthly_income, current_savings_rate)
      required_monthly_savings == goal.monthly_savings_needed
      AtLeast(x) ==
        ~IsNaN(current_monthly_savings) /\ FracGE(current_monthly_savings, x)
      feasibility ==
        IF AtLeast(required_monthly_savings) THEN "Easy"
        ELSE IF AtLeast(FracMul(required_monthly_savings, Frac(8, 10)))
          THEN "Achievable"
        ELSE IF AtLeast(FracMul(required_monthly_savings, Frac(5, 10)))
          THEN "Challenging"
        ELSE "Difficult"
      ratio ==
        IF IsNaN(current_monthly_savings) THEN NaN
        ELSE IF required_monthly_savings = Frac(0, 1)
          THEN IF current_monthly_savings = Frac(0, 1) THEN NaN ELSE Infinity
        ELSE FracMul(FracDiv(current_monthly_savings,
                             required_monthly_savings), Frac(100, 1))
  IN  [feasibility |-> feasibility,
       current_monthly_savings |-> current_monthly_savings,
       required_monthly_savings |-> required_monthly_savings,
       monthly_shortage |->
         IF IsNaN(current_monthly_savings) THEN Frac(0, 1)
         ELSE FracMax(Frac(0, 1), FracSub(required_monthly_savings,
                                          current_monthly_savings)),
       success_probability |->
         IF IsNaN(ratio) THEN Frac(10, 1)
         ELSE IF ratio = Infinity THEN Frac(100, 1)
         ELSE FracMin(Frac(100, 1), FracMax(Frac(10, 1), ratio))]

\* GoalTracker._get_difficulty_score
GetDifficultyScore(difficulty) ==
  CASE difficulty = "Easy" -> 3
    [] difficulty = "Medium" -> 2
    [] difficulty = "Hard" -> 1
    [] OTHER -> 1

\* The sort key (potential_savings, -difficulty score) of a is greater
\* than that of b.
KeyGreater(a, b) ==
  \/ FracGT(a.potential_savings, b.potential_savings)
  \/ /\ a.potential_savings = b.potential_savings
     /\ -GetDifficultyScore(a.difficulty) > -GetDifficultyScore(b.difficulty)

\* strategies.sort(key = ..., reverse = True): greatest key first, equal
\* keys in their order of insertion.
RECURSIVE SortStrategies(_)
SortStrategies(strategies) ==
  IF strategies = << >> THEN << >>
  ELSE LET sorted == SortStrategies(SubSeq(strategies, 1,
                                           Len(strategies) - 1))
           s == strategies[Len(strategies)]
       IN  SelectSeq(sorted, LAMBDA e : ~KeyGreater(s, e))
             \o <<s>> \o SelectSeq(sorted, LAMBDA e : KeyGreater(s, e))

\* len(df['month_year'].unique())
NumMonths(rows) == Cardinality({rows[i].month_year : i \in 1..Len(rows)})

\* amount / max(1, len(df['month_year'].unique()))
MonthlyAmount(total, rows) ==
  Frac(total, IF NumMonths(rows) > 1 THEN NumMonths(rows) ELSE 1)

\* series.head(n)
Head3(series) == SubSeq(series, 1, IF Len(series) < 3 THEN Len(series) ELSE 3)

discretionary_categories == <<"Entertainment", "Shopping", "Dining">>

\* Strategy 1: 15% off each of category_spending.head(3), kept when it
\* covers 30% of the shortage.
ReduceStrategies(category_spending, rows, monthly_shortage) ==
  LET head == Head3(category_spending)
      candidates ==
        AsList([k \in 1..Len(head) |->
          [strategy |-> "Reduce " \o head[k].category \o " Spending",
           potential_savings |->
             FracMul(MonthlyAmount(head[k].amount, rows), Frac(15, 100)),
           difficulty |-> "Medium",
           category |-> head[k].category]])
  IN  SelectSeq(candidates,
        LAMBDA s : FracGE(s.potential_savings,
                          FracMul(monthly_shortage, Frac(3, 10))))

\* Strategy 2: 25% off each discretionary category that has expenses.
CutStrategies(category_spending, rows) ==
  LET present == SelectSeq(discretionary_categories,
                   LAMBDA c : HasCategory(category_spending, c))
      Reduction(c) ==
        FracMul(MonthlyAmount(AtCategory(category_spending, c), rows),
                Frac(25, 100))
  IN  AsList([k \in 1..Len(present) |->
        [strategy |-> "Cut " \o present[k],
         potential_savings |-> Reduction(present[k]),
         difficulty |->
           IF FracGE(Reduction(present[k]), Frac(100, 1)) THEN "Medium"
           ELSE "Easy",
         category |-> present[k]]])

\* Strategy 3: the shortage as extra income.
IncreaseIncome(monthly_shortage) ==
  [strategy |-> "Increase Income",
   potential_savings |-> monthly_shortage,
   difficulty |-> "Hard",
   category |-> "Income"]

\* Strategy 4: the first two strategies of the list together, when there
\* is more than one strategy and the two cover the shortage.
CombinationApproach(strategies, monthly_shortage) ==
  IF Len(strategies) > 1
    THEN LET total_potential ==
               FracAdd(strategies[1].potential_savings,
                       strategies[2].potential_savings)
         IN  IF FracGE(total_potential, monthly_shortage)
               THEN << [strategy |-> "Combination Approach",
                        potential_savings |-> total_potential,
                        difficulty |-> "Medium",
                        category |-> "Mixed"] >>
               ELSE << >>
    ELSE << >>

\* GoalTracker.generate_savings_strategies (the description texts are not
\* kept)
GenerateSavingsStrategies(goal, rows) ==
  LET category_spending == CategoryAbsSum(ExpenseRows(rows))
      monthly_shortage ==
        FracSub(goal.monthly_savings_needed, CalculateCurrentSavings(rows))
      strategies ==
        ReduceStrategies(category_spending, rows, monthly_shortage)
          \o CutStrategies(category_spending, rows)
          \o <<IncreaseIncome(monthly_shortage)>>
      all == strategies \o CombinationApproach(strategies, monthly_shortage)
      sorted == SortStrategies(all)
  IN  IF ~FracGT(monthly_shortage, Frac(0, 1))
        THEN << [strategy |-> "Stay on Track",
                 potential_savings |-> Frac(0, 1),
                 difficulty |-> "Easy",
                 category |-> "Maintenance"] >>
        ELSE SubSeq(sorted, 1, IF Len(sorted) < 5 THEN Len(sorted) ELSE 5)

\* ------------------------------------------------------------------------
\* Financial calendar (financial_calendar.py)
\* ------------------------------------------------------------------------

\* date.dt.day
DayOfMonth(date) == date - MonthStart[MonthYear(date)] + 1

\* date.dt.weekday: Monday is 0; 1 January 2025 is a Wednesday.
Weekday(date) == (date + 2) % 7

recurring_keywords ==
  <<<<"b", "i", "l", "l">>,
    <<"p", "a", "y", "m", "e", "n", "t">>,
    <<"s", "u", "b", "s", "c", "r", "i", "p", "t", "i", "o", "n">>,
    <<"r", "e", "n", "t">>,
    <<"m", "o", "r", "t", "g", "a", "g", "e">>,
    <<"i", "n", "s", "u", "r", "a", "n", "c", "e">>>>

\* A classification that tests the spending before the income.
ClassifyDayTypeSpendingFirst(day_data, total_expense) ==
  IF Len(day_data) = 0 THEN "inactive"
  ELSE IF total_expense > 200 THEN "high_spending"
  ELSE IF \E i \in 1..Len(day_data) : day_data[i].amount > 0
    THEN "income_day"
  ELSE IF \E i \in 1..Len(day_data) :
            ContainsAny(Lower(day_data[i].description), recurring_keywords)
    THEN "bills_day"
  ELSE IF total_expense > 0 THEN "regular_spending"
  ELSE "inactive"

\* FinancialCalendar._classify_day_type
ClassifyDayType(day_data, total_expense) ==
  IF Len(day_data) = 0 THEN "inactive"
  ELSE IF \E i \in 1..Len(day_data) : day_data[i].amount > 0
    THEN "income_day"
  ELSE IF total_expense > 200 THEN "high_spending"
  ELSE IF \E i \in 1..Len(day_data) :
            ContainsAny(Lower(day_data[i].description), recurring_keywords)
    THEN "bills_day"
  ELSE IF total_expense > 0 THEN "regular_spending"
  ELSE "inactive"

\* df[df['date'].dt.day == day]
DayData(rows, day) == SelectSeq(rows, LAMBDA r : DayOfMonth(r.date) = day)

\* The entry _create_daily_summary makes for a day that has transactions.
DaySummary(day_data) ==
  LET total_income == SumAmount(IncomeRows(day_data))
      total_expense == Abs(SumAmount(ExpenseRows(day_data)))
  IN  [total_income |-> total_income,
       total_expense |-> total_expense,
       net_flow |-> total_income - total_expense,
       transaction_count |-> Len(day_data),
       categories |-> CategoryAbsSum(ExpenseRows(day_data)),
       transactions |->
         AsList([i \in 1..Len(day_data) |->
                   [description |-> day_data[i].description,
                    amount |-> day_data[i].amount,
                    category |-> day_data[i].category]]),
       day_type |-> ClassifyDayType(day_data, total_expense)]

\* FinancialCalendar._create_daily_summary: a dict keyed by the days, out
\* of 1..31, that have transactions.
CreateDailySummary(rows) ==
  [day \in {d \in 1..31 : Len(DayData(rows, d)) > 0} |->
     DaySummary(DayData(rows, day))] @@ << >>

\* The part of FinancialCalendar._identify_spending_patterns that compares
\* weekend and weekday spending (the rankings of days are not kept).
IdentifySpendingPatterns(rows) ==
  IF Len(rows) = 0 THEN << >>
  ELSE LET weekend_spending ==
             Abs(SumAmount(SelectSeq(ExpenseRows(rows),
                                     LAMBDA r : Weekday(r.date) >= 5)))
           weekday_spending ==
             Abs(SumAmount(SelectSeq(ExpenseRows(rows),
                                     LAMBDA r : Weekday(r.date) < 5)))
       IN  [weekend_total |-> weekend_spending,
            weekday_total |-> weekday_spending,
            weekend_preference |-> weekend_spending > weekday_spending]

\* calendar.monthcalendar(year, month): weeks from Monday to Sunday, with
\* 0 for the days outside the month.
MonthCalendar(month_year) ==
  LET lead == Weekday(MonthStart[month_year])
      weeks == (lead + DaysInMonth(month_year) + 6) \div 7
  IN  AsList([w \in 1..weeks |->
        AsList([k \in 1..7 |->
          LET day == (w - 1) * 7 + k - lead
          IN  IF day >= 1 /\ day <= DaysInMonth(month_year) THEN day
              ELSE 0])])

\* A cell of the calendar matrix.
MatrixCell(daily_summary, day) ==
  IF day = 0
    THEN [day |-> 0, empty |-> TRUE, spending |-> 0, income |-> 0,
          net |-> 0, type |-> "empty"]
  ELSE IF day \in DOMAIN daily_summary
    THEN [day |-> day, empty |-> FALSE,
          spending |-> daily_summary[day].total_expense,
          income |-> daily_summary[day].total_income,
          net |-> daily_summary[day].net_flow,
          transactions |-> daily_summary[day].transaction_count,
          type |-> daily_summary[day].day_type,
          categories |-> daily_summary[day].categories]
  ELSE [day |-> day, empty |-> FALSE, spending |-> 0, income |-> 0,
        net |-> 0, transactions |-> 0, type |-> "inactive",
        categories |-> << >>]

\* FinancialCalendar._create_calendar_matrix
CreateCalendarMatrix(daily_summary, month_year) ==
  LET cal == MonthCalendar(month_year)
  IN  AsList([w \in 1..Len(cal) |->
        AsList([k \in 1..7 |-> MatrixCell(daily_summary, cal[w][k])])])

\* len(rows['date'].dt.day.unique())
DistinctDays(rows) ==
  Cardinality({DayOfMonth(rows[i].date) : i \in 1..Len(rows)})

\* FinancialCalendar._calculate_month_stats (most_active_day is not kept)
CalculateMonthStats(rows) ==
  LET total_income == SumAmount(IncomeRows(rows))
      total_expense == Abs(SumAmount(ExpenseRows(rows)))
  IN  [total_income |-> total_income,
       total_expense |-> total_expense,
       net_flow |-> total_income - total_expense,
       transaction_count |-> Len(rows),
       daily_avg_expense |->
         IF Len(rows) > 0
           THEN Frac(total_expense,
                     IF DistinctDays(rows) > 1 THEN DistinctDays(rows) ELSE 1)
           ELSE Frac(0, 1),
       spending_days |-> DistinctDays(ExpenseRows(rows)),
       income_days |-> DistinctDays(IncomeRows(rows))]

\* FinancialCalendar.create_calendar_view for the month numbered
\* month_year; without year and month the caller passes the month of
\* datetime.now().
CreateCalendarView(rows, month_year) ==
  LET calendar_rows == SelectSeq(rows, LAMBDA r : r.month_year = month_year)
      daily_summary == CreateDailySummary(calendar_rows)
  IN  [calendar_matrix |-> CreateCalendarMatrix(daily_summary, month_year),
       daily_summary |-> daily_summary,
       patterns |-> IdentifySpendingPatterns(calendar_rows),
       month_stats |-> CalculateMonthStats(calendar_rows),
       year |-> EpochYear + (month_year \div 12),
       month |-> (month_year % 12) + 1]

\* ------------------------------------------------------------------------
\* What the engines write, and to which table
\* ------------------------------------------------------------------------

\* A table without rows and columns, and the frames before any engine call.
EmptyTable == [rows |-> << >>, columns |-> {}]

NoFrames == [before |-> EmptyTable, given |-> EmptyTable, work |-> EmptyTable]

\* df[name] = values: the table with the column set on every row.
SetColumn(table, name, Value(_)) ==
  [rows |-> AsList([i \in 1..Len(table.rows) |->
                     (name :> Value(table.rows[i])) @@ table.rows[i]]),
   columns |-> table.columns \cup {name}]

\* ExpenseCategorizer.categorize_transactions: df_copy = df.copy() gets a
\* category column when it has none and the category of every row; the
\* table given is not written to, and df_copy is returned.
CategorizeFrames(table) ==
  LET Category(r) == CategorizeSingleTransaction(r.description, r.amount)
  IN  [before |-> table,
       given |-> table,
       work |-> SetColumn(table, "category", Category)]

\* A create_calendar_view whose weekend column is written to the table
\* given instead of the copy of the month.
CreateCalendarFramesInPlace(table, month_year) ==
  LET IsWeekend(r) == Weekday(r.date) >= 5
      calendar_data ==
        [rows |-> SelectSeq(table.rows, LAMBDA r : r.month_year = month_year),
         columns |-> table.columns]
  IN  [before |-> table,
       given |-> IF calendar_data.rows = << >> THEN table
                 ELSE SetColumn(table, "is_weekend", IsWeekend),
       work |-> calendar_data]

\* FinancialCalendar.create_calendar_view: calendar_data = df[...].copy() is
\* the month's slice; _identify_spending_patterns(calendar_data) writes the
\* column is_weekend to it unless it is empty; the table given is only read.
CreateCalendarFrames(table, month_year) ==
  LET IsWeekend(r) == Weekday(r.date) >= 5
      calendar_data ==
        [rows |-> SelectSeq(table.rows, LAMBDA r : r.month_year = month_year),
         columns |-> table.columns]
  IN  [before |-> table,
       given |-> table,
       work |-> IF calendar_data.rows = << >> THEN calendar_data
                ELSE SetColumn(calendar_data, "is_weekend", IsWeekend)]

\* calculate_health_score, predict_future_spending,
\* detect_spending_anomalies, generate_alerts, analyze_goal_feasibility and
\* generate_savings_strategies select, group and aggregate: none assigns to
\* a column or a cell of the table given or of a slice of it.
ReadOnlyFrames(table) ==
  [before |-> table, given |-> table, work |-> EmptyTable]

\* ------------------------------------------------------------------------
\* Data processor: cleaning of an uploaded file (data_processor.py)
\* ------------------------------------------------------------------------

\* A cell of the file as read: << >> when missing (NaN / NaT), else <<v>>.
Missing == << >>

\* str(float('nan')), the text astype(str) makes of a missing cell of an
\* object column.
NanText == <<"n", "a", "n">>

\* DataProcessor._clean_data_types on a file whose date column parses and
\* whose amount column is numeric: description.astype(str).str.strip().
\* astype(str) turns a missing description into the text 'nan' on an
\* object column and leaves it missing on a string-dtype column, which
\* pandas chooses by its version (missing_as_text).
CleanDataTypes(rows, missing_as_text) ==
  AsList([i \in 1..Len(rows) |->
    [rows[i] EXCEPT !.description =
       IF rows[i].description = Missing
         THEN IF missing_as_text THEN <<NanText>> ELSE Missing
       ELSE <<Strip(rows[i].description[1])>>]])

\* DataProcessor._remove_invalid_transactions called at time `now`: dropna
\* on the three columns, then amount != 0, then date <= now.
RemoveInvalidTransactions(rows, now) ==
  SelectSeq(rows, LAMBDA r :
    /\ r.date # Missing /\ r.description # Missing /\ r.amount # Missing
    /\ r.amount[1] # 0
    /\ r.date[1] <= now)

\* DataProcessor._add_derived_columns: the columns the engines read.
AddDerivedColumns(rows) ==
  AsList([i \in 1..Len(rows) |->
    [date |-> rows[i].date[1],
     month_year |-> MonthYear(rows[i].date[1]),
     description |-> rows[i].description[1],
     amount |-> rows[i].amount[1]]])

\* DataProcessor._clean_dataframe
CleanDataframe(rows, now, missing_as_text) ==
  AddDerivedColumns(
    RemoveInvalidTransactions(CleanDataTypes(rows, missing_as_text), now))

\* ExpenseCategorizer.categorize_transactions on a table without a category
\* column: a copy with the category of every row.
CategorizeTransactions(rows) ==
  AsList([i \in 1..Len(rows) |->
    [date |-> rows[i].date,
     month_year |-> rows[i].month_year,
     description |-> rows[i].description,
     amount |-> rows[i].amount,
     category |-> CategorizeSingleTransaction(rows[i].description,
                                              rows[i].amount)]])

\* ------------------------------------------------------------------------
\* Conversation handler (conversation_handler.py)
\* ------------------------------------------------------------------------

\* _analyze_query: the words of each intent, in the order they are tried.
spending_words ==
  <<<<"h", "o", "w", " ", "m", "u", "c", "h">>,
    <<"t", "o", "t", "a", "l">>, <<"s", "u", "m">>,
    <<"s", "p", "e", "n", "t">>, <<"s", "p", "e", "n", "d">>>>

comparison_words ==
  <<<<"c", "o", "m", "p", "a", "r", "e">>,
    <<"c", "o", "m", "p", "a", "r", "i", "s", "o", "n">>, <<"v", "s">>,
    <<"v", "e", "r", "s", "u", "s">>>>

trend_words ==
  <<<<"t", "r", "e", "n", "d">>, <<"p", "a", "t", "t", "e", "r", "n">>,
    <<"o", "v", "e", "r", " ", "t", "i", "m", "e">>,
    <<"m", "o", "n", "t", "h", "l", "y">>>>

category_words ==
  <<<<"c", "a", "t", "e", "g", "o", "r", "y">>,
    <<"c", "a", "t", "e", "g", "o", "r", "i", "e", "s">>,
    <<"t", "y", "p", "e">>, <<"t", "y", "p", "e", "s">>>>

recommendation_words ==
  <<<<"b", "u", "d", "g", "e", "t">>,
    <<"r", "e", "c", "o", "m", "m", "e", "n", "d">>,
    <<"a", "d", "v", "i", "c", "e">>, <<"s", "u", "g", "g", "e", "s", "t">>>>

\* category.lower() of each label of the categorizer, in the order of
\* `categories`.
category_lower ==
  <<<<"f", "o", "o", "d", " ", "&", " ", "d", "i", "n", "i", "n", "g">>,
    <<"t", "r", "a", "n", "s", "p", "o", "r", "t", "a", "t", "i", "o", "n">>,
    <<"s", "h", "o", "p", "p", "i", "n", "g">>,
    <<"b", "i", "l", "l", "s", " ", "&", " ", "u", "t", "i", "l", "i", "t", "i", "e", "s">>,
    <<"e", "n", "t", "e", "r", "t", "a", "i", "n", "m", "e", "n", "t">>,
    <<"h", "e", "a", "l", "t", "h", " ", "&", " ", "m", "e", "d", "i", "c", "a", "l">>,
    <<"t", "r", "a", "v", "e", "l">>,
    <<"e", "d", "u", "c", "a", "t", "i", "o", "n">>,
    <<"i", "n", "s", "u", "r", "a", "n", "c", "e">>,
    <<"i", "n", "v", "e", "s", "t", "m", "e", "n", "t">>,
    <<"i", "n", "c", "o", "m", "e">>,
    <<"t", "r", "a", "n", "s", "f", "e", "r">>,
    <<"o", "t", "h", "e", "r">>>>

\* What get_response returns: a text, kept as the sentence it is (kind),
\* the name it puts into the sentence (subject) and the amount it prints.
Text(kind, subject, amount) ==
  [kind |-> kind, subject |-> subject, amount |-> amount]

\* No question has been asked yet.
NoResponse == Text("none", "", 0)

\* chat.completions.create raised (no key, no network, an error of the API).
APIError == [raised |-> "APIError"]

\* _analyze_query: the intent, by the first list with a word in the
\* lower-cased question, and the first category of the table whose
\* lower-cased label is in the question. The questions asked here name no
\* period ("last month", "this year", ...), so time_period stays None.
AnalyzeQuery(query, rows, cols) ==
  LET query_lower == Lower(query)
      labels == IF "category" \in cols THEN UniqueCategories(rows) ELSE << >>
      LowerOf(c) ==
        category_lower[CHOOSE k \in 1..Len(categories) : categories[k] = c]
      named == SelectSeq(labels, LAMBDA c : Contains(query_lower, LowerOf(c)))
  IN  [intent |->
         IF ContainsAny(query_lower, spending_words)
           THEN "spending_analysis"
         ELSE IF ContainsAny(query_lower, comparison_words)
           THEN "comparison"
         ELSE IF ContainsAny(query_lower, trend_words)
           THEN "trend_analysis"
         ELSE IF ContainsAny(query_lower, category_words)
           THEN "category_analysis"
         ELSE IF ContainsAny(query_lower, recommendation_words)
           THEN "recommendation"
         ELSE "general",
       time_period |-> "None",
       category |-> IF named = << >> THEN "None" ELSE Head(named)]

\* _generate_fallback_response: the sentence built from the table alone.
\* The largest expense category is taken with idxmax, which raises when
\* the table has no expense.
GenerateFallbackResponse(query, analysis, rows, cols) ==
  IF analysis.intent = "spending_analysis"
  THEN LET filtered_df ==
             IF analysis.category # "None"
             THEN SelectSeq(rows, LAMBDA r : r.category = analysis.category)
             ELSE rows
       IN  Text("you_spent",
                IF analysis.category # "None" THEN analysis.category ELSE "",
                Abs(SumAmount(ExpenseRows(filtered_df))))
  ELSE IF analysis.intent = "category_analysis" /\ "category" \in cols
  THEN IF ExpenseRows(rows) = << >>
       THEN ValueError
       ELSE Text("highest_category",
                 IdxMax(CategoryAbsSum(ExpenseRows(rows))), 0)
  ELSE Text("rephrase", "", 0)

\* _generate_response: the answer of the model, or the fallback when the
\* call to the model raises. The context (_prepare_context) goes into the
\* prompt only; its summaries select, group and print, and do not raise on
\* a categorized table.
GenerateResponse(query, analysis, rows, cols, reply) ==
  IF reply = APIError
  THEN GenerateFallbackResponse(query, analysis, rows, cols)
  ELSE Text("model", reply.content, 0)

\* get_response: the answer and the memory after the call. An exception of
\* any step ends in the apology that quotes it, before the memory is
\* written.
GetResponse(user_query, rows, cols, reply, memory, now) ==
  LET query_analysis == AnalyzeQuery(user_query, rows, cols)
      answer == GenerateResponse(user_query, query_analysis, rows, cols, reply)
  IN  IF answer = ValueError
      THEN [response |-> Text("apology", ValueError.raised, 0),
            memory |-> memory]
      ELSE [response |-> answer,
            memory |-> Append(memory, [query |-> user_query,
                                       response |-> answer,
                                       timestamp |-> now])]

\* ------------------------------------------------------------------------
\* State
\* ------------------------------------------------------------------------

VARIABLES
  description,  \* the description of the row handed to the categorizer
  amount,       \* the amount of that row
  category,     \* the category column of that row ("Other" until categorized)
  progress,     \* rows the loop of categorize_transactions has processed
  today,        \* date.today() / datetime.now(), as a day number
  user_goals,   \* st.session_state.user_goals
  df,           \* st.session_state.transactions_df, cleaned and categorized
  calls,        \* the engines whose result for the present table is shown
  anomalies,    \* the result of detect_spending_anomalies
  prediction,   \* the result of predict_future_spending
  budgets,      \* st.session_state.budgets, in insertion order
  alerts,       \* the result of generate_alerts
  health_data,  \* the result of calculate_health_score
  feasibility,  \* the results of analyze_goal_feasibility, one per goal
  strategies,   \* the results of generate_savings_strategies, per goal
  calendar_data, \* the result of create_calendar_view
  rendered_on,   \* the date of the script run that computed the results
  horizon,       \* months_ahead of the predict_future_spending call shown
  raw_df,        \* the rows of the uploaded file, as read_csv returns them
  columns,       \* the column names of st.session_state.transactions_df
  frames,        \* the table handed to the last engine call, before and
                 \* after it, and the copy the engine worked on
  conversation_memory, \* ConversationHandler.conversation_memory
  response       \* what the last get_response call returned

catVars == <<description, amount, category, progress>>

goalVars == <<user_goals, budgets>>

resultVars == <<anomalies, prediction, horizon, alerts, health_data>>

goalTabVars == <<feasibility, strategies>>

chatVars == <<conversation_memory, response>>

sideVars == <<raw_df, columns, frames, chatVars>>

viewVars == <<goalTabVars, calendar_data, rendered_on, sideVars>>

tableVars == <<df, calls, resultVars, viewVars>>

vars ==
  <<description, amount, category, progress, today, user_goals,
    df, calls, anomalies, prediction, budgets, alerts, health_data,
    feasibility, strategies, calendar_data, rendered_on, horizon, raw_df,
    columns, frames, conversation_memory, response>>

\* The health tab before calculate_health_score has run.
NoHealthData ==
  [total_score |-> Frac(0, 1), component_scores |-> << >>, grade |-> ""]

\* The calendar tab before create_calendar_view has run.
NoCalendarData ==
  [calendar_matrix |-> << >>, daily_summary |-> << >>, patterns |-> << >>,
   month_stats |-> << >>, year |-> 0, month |-> 0]

\* No engine has produced a result for the present table.
NoResults ==
  /\ anomalies = << >>
  /\ prediction = DefaultPrediction(0)
  /\ horizon = 0
  /\ alerts = << >>
  /\ health_data = NoHealthData
  /\ feasibility = << >>
  /\ strategies = << >>
  /\ calendar_data = NoCalendarData
  /\ rendered_on = 0

\* A rerun with a new table discards the results shown before.
DiscardResults ==
  /\ anomalies' = << >>
  /\ prediction' = DefaultPrediction(0)
  /\ horizon' = 0
  /\ alerts' = << >>
  /\ health_data' = NoHealthData
  /\ feasibility' = << >>
  /\ strategies' = << >>
  /\ calendar_data' = NoCalendarData
  /\ rendered_on' = 0
  /\ UNCHANGED sideVars

\* The categorizer before any row is handled.
CatIdle ==
  /\ description = << >>
  /\ amount = 0
  /\ category = "Other"
  /\ progress = 0

\* The goal tab before any goal is created.
GoalIdle ==
  /\ user_goals = << >>
  /\ budgets = << >>

\* The columns _add_derived_columns and categorize_transactions leave in
\* the table of the session.
session_columns ==
  {"date", "description", "amount", "transaction_type", "abs_amount",
   "month", "year", "month_year", "day_of_week", "category"}

\* No file has been read and nothing has been asked.
SideIdle ==
  /\ raw_df = << >>
  /\ columns = session_columns
  /\ frames = NoFrames
  /\ conversation_memory = << >>
  /\ response = NoResponse

\* The session before a table is uploaded and before any engine has run.
TableIdle ==
  /\ df = << >>
  /\ calls = {}
  /\ NoResults
  /\ SideIdle

\* ------------------------------------------------------------------------
\* Categorizer: inputs and the categorize step
\* ------------------------------------------------------------------------

\* Words a description is typed from (mixed case, several categories each).
Words ==
  { <<"S", "a", "l", "a", "r", "y">>,
    <<"D", "e", "p", "o", "s", "i", "t">>,
    <<"N", "e", "t", "F", "l", "i", "x">>,
    <<"n", "e", "t", "f", "l", "i", "x">>,
    <<"P", "i", "z", "z", "a">>,
    <<"m", "o", "v", "i", "e">>,
    <<"g", "a", "s">>,
    <<"b", "i", "l", "l">>,
    <<"b", "o", "o", "k", "s">>,
    <<"r", "e", "f", "u", "n", "d">>,
    <<"U", "b", "e", "r">>,
    <<"h", "o", "t", "e", "l">>,
    <<"d", "o", "c", "t", "o", "r">>,
    <<"p", "r", "e", "m", "i", "u", "m">>,
    <<"A", "T", "M">>,
    <<"I", "R", "A">>,
    <<"z", "z", "z">> }

\* Amounts of a row: an expense, a zero default (row.get('amount', 0)) and
\* an income.
Amounts == {-50, 0, 2500}

\* Number of words of a description typed so far.
NumWords(d) ==
  IF d = << >> THEN 0
  ELSE 1 + Cardinality({i \in 1..Len(d) : d[i] = " "})

CatInit == CatIdle /\ GoalIdle /\ TableIdle /\ today = 0

\* The user types one more word of the description; the row is not yet
\* categorized (categorize_transactions defaults the column to 'Other').
TypeWord(w) ==
  /\ NumWords(description) < MaxWords
  /\ description' = (IF description = << >> THEN w
                     ELSE description \o <<" ">> \o w)
  /\ category' = "Other"
  /\ progress' = 0
  /\ UNCHANGED <<amount, today, goalVars, tableVars>>

SetAmount(a) ==
  /\ a # amount
  /\ amount' = a
  /\ category' = "Other"
  /\ progress' = 0
  /\ UNCHANGED <<description, today, goalVars, tableVars>>

\* One iteration of the loop of categorize_transactions.
Categorize ==
  /\ description # << >>
  /\ progress = 0
  /\ category' = CategorizeSingleTransaction(description, amount)
  /\ progress' = 1
  /\ UNCHANGED <<description, amount, today, goalVars, tableVars>>

CatNext ==
  \/ \E w \in Words : TypeWord(w)
  \/ \E a \in Amounts : SetAmount(a)
  \/ Categorize

SpecCat == CatInit /\ [][CatNext]_vars

\* ------------------------------------------------------------------------
\* Goal tab: inputs and steps
\* ------------------------------------------------------------------------

\* Target and current amounts offered to create_goal.
TargetAmounts == {0, 100, 6000}

CurrentAmounts == {0, 49, 50, 74, 75, 99, 100, 150}

\* Target dates offered to create_goal, as days from the day of the call.
TargetOffsets == {-1, 0, 29, 30, 365}

GoalInit == CatIdle /\ GoalIdle /\ TableIdle /\ today = 0

\* The "Create Goal" button: create_goal and the append to user_goals.
CreateGoal(target_amount, current_amount, offset) ==
  /\ Len(user_goals) < MaxGoals
  /\ user_goals' = Append(user_goals,
                          CreateGoalRecord("Goal", target_amount,
                                           today + offset, "Custom Goal",
                                           current_amount, today))
  /\ UNCHANGED <<today, budgets, catVars, tableVars>>

\* The "Remove Goal" button of goal i: user_goals.pop(i).
RemoveGoal(i) ==
  /\ i \in 1..Len(user_goals)
  /\ user_goals' = SubSeq(user_goals, 1, i - 1)
                     \o SubSeq(user_goals, i + 1, Len(user_goals))
  /\ UNCHANGED <<today, budgets, catVars, tableVars>>

\* Midnight passes while the session stays open.
AdvanceDay ==
  /\ today < MaxDays
  /\ today' = today + 1
  /\ UNCHANGED <<user_goals, budgets, catVars, tableVars>>

GoalNext ==
  \/ \E t \in TargetAmounts, c \in CurrentAmounts, o \in TargetOffsets :
       CreateGoal(t, c, o)
  \/ \E i \in 1..MaxGoals : RemoveGoal(i)
  \/ AdvanceDay

SpecGoal == GoalInit /\ [][GoalNext]_vars

\* ------------------------------------------------------------------------
\* Uploaded tables
\* ------------------------------------------------------------------------

Pizza == <<"P", "i", "z", "z", "a">>

Salary == <<"S", "a", "l", "a", "r", "y">>

ElectricBill ==
  <<"E", "l", "e", "c", "t", "r", "i", "c", " ", "b", "i", "l", "l">>

\* A row of a statement: the day of the month, the description as cleaned
\* by _clean_data_types, the amount, and the category that
\* categorize_transactions gives it.
Row(day, desc, amt) ==
  [day |-> day,
   description |-> Strip(desc),
   amount |-> amt,
   category |-> CategorizeSingleTransaction(Strip(desc), amt)]

\* The rows of one month of a statement, dated in that month.
MonthRows(month_year, statement) ==
  AsList([i \in 1..Len(statement) |->
    [date |-> DateOf(month_year, statement[i].day),
     month_year |-> MonthYear(DateOf(month_year, statement[i].day)),
     description |-> statement[i].description,
     amount |-> statement[i].amount,
     category |-> statement[i].category]])

\* The months of the table, and the month a further statement covers.
TableMonths(rows) == {rows[i].month_year : i \in 1..Len(rows)}

NextMonth(rows) == Cardinality(TableMonths(rows))

\* ------------------------------------------------------------------------
\* Anomaly tab: inputs and steps
\* ------------------------------------------------------------------------

\* The usual month: a salary and one food expense of 100.
UsualStatement == <<Row(1, Salary, 2500), Row(5, Pizza, -100)>>

\* Months that depart from the usual one.
Spike300Statement == <<Row(1, Salary, 2500), Row(5, Pizza, -300)>>

Spike500Statement == <<Row(1, Salary, 2500), Row(5, Pizza, -500)>>

ExtraBillStatement ==
  <<Row(1, Salary, 2500), Row(5, Pizza, -100), Row(9, ElectricBill, -200)>>

SpikeStatements ==
  {Spike300Statement, Spike500Statement, ExtraBillStatement}

\* Number of months of the table that are not the usual month.
NumSpikes(rows) ==
  Cardinality({m \in TableMonths(rows) :
                 SelectSeq(rows, LAMBDA r : r.month_year = m)
                   # MonthRows(m, UsualStatement)})

AnomalyInit ==
  /\ CatIdle /\ GoalIdle /\ TableIdle
  /\ today = DateOf(MaxMonths, 15)

\* A statement with one more month is uploaded; every result is stale.
AddMonth(statement) ==
  /\ NextMonth(df) < MaxMonths
  /\ statement \in SpikeStatements => NumSpikes(df) < MaxSpikes
  /\ df' = df \o MonthRows(NextMonth(df), statement)
  /\ \A i \in 1..Len(df') : df'[i].date <= today
  /\ calls' = {}
  /\ DiscardResults
  /\ UNCHANGED <<today, catVars, goalVars>>

\* The anomaly section of the predictions tab.
DetectAnomalies ==
  /\ df # << >>
  /\ "anomalies" \notin calls
  /\ anomalies' = DetectSpendingAnomalies(df)
  /\ calls' = calls \cup {"anomalies"}
  /\ UNCHANGED <<df, today, catVars, goalVars, prediction, horizon, alerts,
                 health_data, viewVars>>

AnomalyNext ==
  \/ \E statement \in {UsualStatement} \cup SpikeStatements :
       AddMonth(statement)
  \/ DetectAnomalies

SpecAnomaly == AnomalyInit /\ [][AnomalyNext]_vars

\* ------------------------------------------------------------------------
\* Predictions tab: inputs and steps
\* ------------------------------------------------------------------------

\* The food expense of a month of the uploaded history.
HistoryAmounts == {100, 200, 300, 400}

\* The forecast horizons asked for (the tab asks for 3).
Horizons == {1, 3}

PredictInit ==
  /\ CatIdle /\ GoalIdle /\ TableIdle
  /\ today = DateOf(MaxHistory, 15)

\* A statement with one more month, holding one food expense, is uploaded.
AddHistory(amt) ==
  /\ NextMonth(df) < MaxHistory
  /\ df' = df \o MonthRows(NextMonth(df), <<Row(5, Pizza, -amt)>>)
  /\ \A i \in 1..Len(df') : df'[i].date <= today
  /\ calls' = {}
  /\ DiscardResults
  /\ UNCHANGED <<today, catVars, goalVars>>

\* The forecast section of the predictions tab.
Predict(months_ahead) ==
  /\ df # << >>
  /\ "prediction" \notin calls
  /\ prediction' = PredictFutureSpending(df, months_ahead, today)
  /\ horizon' = months_ahead
  /\ calls' = calls \cup {"prediction"}
  /\ UNCHANGED <<df, today, catVars, goalVars, anomalies, alerts,
                 health_data, viewVars>>

PredictNext ==
  \/ \E amt \in HistoryAmounts : AddHistory(amt)
  \/ \E months_ahead \in Horizons : Predict(months_ahead)

SpecPredict == PredictInit /\ [][PredictNext]_vars

\* ------------------------------------------------------------------------
\* Alerts tab: inputs and steps
\* ------------------------------------------------------------------------

Uber == <<"U", "b", "e", "r">>

Amazon == <<"A", "m", "a", "z", "o", "n">>

Movie == <<"M", "o", "v", "i", "e">>

Doctor == <<"D", "o", "c", "t", "o", "r">>

Hotel == <<"H", "o", "t", "e", "l">>

\* The usual month of a household: a salary and six expenses of 100.
HouseholdUsual ==
  <<Row(1, Salary, 2500), Row(5, Pizza, -100), Row(5, Uber, -100),
    Row(5, Amazon, -100), Row(5, ElectricBill, -100), Row(5, Movie, -100),
    Row(5, Doctor, -100)>>

\* A month in which every expense doubles and a hotel is paid.
HouseholdHeavy ==
  <<Row(1, Salary, 2500), Row(5, Pizza, -200), Row(5, Uber, -200),
    Row(5, Amazon, -200), Row(5, ElectricBill, -200), Row(5, Movie, -200),
    Row(5, Doctor, -200), Row(20, Hotel, -700)>>

\* A month away from home: food, rides and a hotel only.
HouseholdAway ==
  <<Row(1, Salary, 2500), Row(5, Pizza, -200), Row(5, Uber, -200),
    Row(20, Hotel, -700)>>

HouseholdStatements == {HouseholdUsual, HouseholdHeavy, HouseholdAway}

\* The categories and ceilings entered in the budget form.
BudgetCategories == {"Food & Dining", "Transportation"}

BudgetAmounts == {0, 100, 250}

\* `category in budgets`
HasBudget(budget_items, c) ==
  \E i \in 1..Len(budget_items) : budget_items[i].category = c

\* budgets[category] = budget_amount on a dict, which keeps the place of a
\* key it already holds and appends a new one.
SetItem(budget_items, c, budget_amount) ==
  IF HasBudget(budget_items, c)
    THEN AsList([i \in 1..Len(budget_items) |->
           IF budget_items[i].category = c
             THEN [category |-> c, budget |-> budget_amount]
             ELSE budget_items[i]])
    ELSE Append(budget_items, [category |-> c, budget |-> budget_amount])

\* The session is opened on the 28th of the last month a table may cover.
AlertInit ==
  /\ CatIdle /\ GoalIdle /\ TableIdle
  /\ today = DateOf(MaxAlertMonths - 1, 28)

\* A statement with one more month is uploaded; every result is stale.
UploadMonth(statement) ==
  /\ NextMonth(df) < MaxAlertMonths
  /\ df' = df \o MonthRows(NextMonth(df), statement)
  /\ calls' = {}
  /\ DiscardResults
  /\ UNCHANGED <<today, catVars, goalVars>>

\* The "Set Budget" button: the category is one of df['category'].unique().
SetBudget(c, budget_amount) ==
  /\ \E i \in 1..Len(df) : df[i].category = c
  /\ HasBudget(budgets, c) \/ Len(budgets) < MaxBudgets
  /\ budgets' = SetItem(budgets, c, budget_amount)
  /\ budgets' # budgets
  /\ calls' = {}
  /\ DiscardResults
  /\ UNCHANGED <<df, today, user_goals, catVars>>

\* The alerts tab: generate_alerts(df, st.session_state.budgets).
ShowAlerts ==
  /\ df # << >>
  /\ "alerts" \notin calls
  /\ alerts' = GenerateAlerts(df, budgets, today)
  /\ calls' = calls \cup {"alerts"}
  /\ UNCHANGED <<df, today, catVars, goalVars, anomalies, prediction, horizon,
                 health_data, viewVars>>

AlertNext ==
  \/ \E statement \in HouseholdStatements : UploadMonth(statement)
  \/ \E c \in BudgetCategories, b \in BudgetAmounts : SetBudget(c, b)
  \/ ShowAlerts

SpecAlerts == AlertInit /\ [][AlertNext]_vars

\* ------------------------------------------------------------------------
\* Health tab: inputs and steps
\* ------------------------------------------------------------------------

LoanPayment ==
  <<"L", "o", "a", "n", " ", "p", "a", "y", "m", "e", "n", "t">>

EmergencyFund ==
  <<"E", "m", "e", "r", "g", "e", "n", "c", "y", " ", "f", "u", "n", "d">>

\* Months with a salary and 1000 spent on food and a hotel, the food taking
\* 15%, 17.6% or 25.9% of it.
DietBalanced ==
  <<Row(1, Salary, 2500), Row(5, Pizza, -150), Row(20, Hotel, -850)>>

DietModest ==
  <<Row(1, Salary, 2500), Row(5, Pizza, -176), Row(20, Hotel, -824)>>

DietRich ==
  <<Row(1, Salary, 2500), Row(5, Pizza, -259), Row(20, Hotel, -741)>>

\* A month without income.
NoIncomeStatement == <<Row(5, Pizza, -500)>>

\* A month in which most of the spending repays a loan.
DebtStatement ==
  <<Row(1, Salary, 2500), Row(3, LoanPayment, -800), Row(5, Pizza, -200)>>

\* A month in which money is received from an emergency fund.
SaverStatement ==
  <<Row(1, Salary, 2500), Row(2, EmergencyFund, 6000), Row(5, Pizza, -150),
    Row(20, Hotel, -850)>>

\* A month that spends three times the income.
OverspendStatement == <<Row(1, Salary, 1000), Row(20, Hotel, -3000)>>

\* A month of a salary account: income only.
IncomeOnlyStatement == <<Row(1, Salary, 2500)>>

\* A month whose four categories are all far from the recommended ratios.
LopsidedStatement ==
  <<Row(1, Salary, 2500), Row(5, Movie, -200), Row(5, Doctor, -200),
    Row(5, Pizza, -300), Row(5, Uber, -300)>>

HealthStatements ==
  {DietBalanced, DietModest, DietRich, NoIncomeStatement, DebtStatement,
   SaverStatement, OverspendStatement, LopsidedStatement,
   IncomeOnlyStatement}

HealthInit ==
  /\ CatIdle /\ GoalIdle /\ TableIdle
  /\ today = DateOf(MaxHealthMonths, 15)

\* A statement with one more month is uploaded; every result is stale.
AddStatement(statement) ==
  /\ NextMonth(df) < MaxHealthMonths
  /\ df' = df \o MonthRows(NextMonth(df), statement)
  /\ calls' = {}
  /\ DiscardResults
  /\ UNCHANGED <<today, catVars, goalVars>>

\* The health tab: calculate_health_score(df). When the call raises, the
\* tab shows the exception and no score.
ShowHealth ==
  /\ df # << >>
  /\ "health" \notin calls
  /\ "health_raised" \notin calls
  /\ IF CalculateHealthScore(df) = ValueError
       THEN /\ health_data' = health_data
            /\ calls' = calls \cup {"health_raised"}
       ELSE /\ health_data' = CalculateHealthScore(df)
            /\ calls' = calls \cup {"health"}
  /\ UNCHANGED <<df, today, catVars, goalVars, anomalies, prediction, horizon,
                 alerts, viewVars>>

HealthNext ==
  \/ \E statement \in HealthStatements : AddStatement(statement)
  \/ ShowHealth

SpecHealth == HealthInit /\ [][HealthNext]_vars

\* ------------------------------------------------------------------------
\* Goals tab with a table: inputs and steps
\* ------------------------------------------------------------------------

\* A month that leaves 500: five expense categories, of which the first
\* three in alphabetical order are not the three largest.
ComfortStatement ==
  <<Row(1, Salary, 2500), Row(3, ElectricBill, -500), Row(5, Movie, -300),
    Row(7, Pizza, -100), Row(9, Amazon, -500), Row(11, Hotel, -600)>>

\* A month that leaves 300, spent in one category.
LeanStatement == <<Row(1, Salary, 2500), Row(11, Hotel, -2200)>>

\* With them a month that spends more than it earns, a month without
\* income and a month without expenses.
PlanStatements ==
  {ComfortStatement, LeanStatement, OverspendStatement, NoIncomeStatement,
   IncomeOnlyStatement}

\* The goals offered to "Create Goal": target amount, current amount, and
\* the target date as days from today. They need 500.38, 500, 600 and 0 a
\* month.
GoalInputs ==
  { <<6000, 0, 365>>, <<600, 100, 30>>, <<600, 0, 30>>, <<100, 150, 30>> }

PlanInit ==
  /\ CatIdle /\ GoalIdle /\ TableIdle
  /\ today = DateOf(MaxPlanMonths, 15)

\* An upload that adds one more month in front of today's month.
UploadStatement(statement) ==
  /\ NextMonth(df) < MaxPlanMonths
  /\ df' = df \o MonthRows(NextMonth(df), statement)
  /\ calls' = {}
  /\ DiscardResults
  /\ UNCHANGED <<today, catVars, goalVars>>

\* The "Create Goal" button on the goals tab of a loaded table.
CreateGoalForTable(target_amount, current_amount, offset) ==
  /\ df # << >>
  /\ Len(user_goals) < MaxGoals
  /\ user_goals' = Append(user_goals,
                          CreateGoalRecord("Goal", target_amount,
                                           today + offset, "Custom Goal",
                                           current_amount, today))
  /\ calls' = calls \ {"goals"}
  /\ feasibility' = << >>
  /\ strategies' = << >>
  /\ UNCHANGED <<df, today, budgets, catVars, resultVars, calendar_data,
                 rendered_on, sideVars>>

\* The goals tab: analyze_goal_feasibility for every goal, and
\* generate_savings_strategies for the first two goals.
ShowGoals ==
  /\ df # << >>
  /\ user_goals # << >>
  /\ "goals" \notin calls
  /\ feasibility' =
       AsList([i \in 1..Len(user_goals) |->
                 AnalyzeGoalFeasibility(user_goals[i], df)])
  /\ strategies' =
       AsList([i \in 1..(IF Len(user_goals) < 2 THEN Len(user_goals) ELSE 2)
                 |-> GenerateSavingsStrategies(user_goals[i], df)])
  /\ calls' = calls \cup {"goals"}
  /\ UNCHANGED <<df, today, catVars, goalVars, resultVars, calendar_data,
                 rendered_on, sideVars>>

PlanNext ==
  \/ \E statement \in PlanStatements : UploadStatement(statement)
  \/ \E g \in GoalInputs : CreateGoalForTable(g[1], g[2], g[3])
  \/ ShowGoals

SpecPlan == PlanInit /\ [][PlanNext]_vars

\* ------------------------------------------------------------------------
\* Calendar tab: inputs and steps
\* ------------------------------------------------------------------------

Rent == <<"R", "e", "n", "t">>

\* The transactions a statement of the present month is made of.
CalendarEntries ==
  { <<Salary, 2500>>, <<Pizza, -100>>, <<Hotel, -250>>, <<Rent, -200>>,
    <<ElectricBill, -100>> }

\* The days of the month they are dated.
CalendarDays == {1, 2}

\* The statement of the month before.
LastMonthStatement == <<Row(1, Salary, 2500), Row(3, Hotel, -250)>>

\* The present month is February of EpochYear.
ThisMonth == 1

CalendarInit ==
  /\ CatIdle /\ GoalIdle /\ TableIdle
  /\ today = DateOf(ThisMonth, 15)

\* An upload of the statement of last month, before anything else.
UploadLastMonth ==
  /\ df = << >>
  /\ df' = MonthRows(ThisMonth - 1, LastMonthStatement)
  /\ calls' = {}
  /\ DiscardResults
  /\ UNCHANGED <<today, catVars, goalVars>>

\* An upload of the table with one more transaction of the present month.
AddTransaction(day, entry) ==
  /\ Len(SelectSeq(df, LAMBDA r : r.month_year = ThisMonth))
       < MaxCalendarRows
  /\ df' = df \o MonthRows(ThisMonth, <<Row(day, entry[1], entry[2])>>)
  /\ calls' = {}
  /\ DiscardResults
  /\ UNCHANGED <<today, catVars, goalVars>>

\* The calendar tab: create_calendar_view(df, year, month) for the month
\* selected, which is the month of datetime.now() unless another is chosen.
ShowCalendar(month_year) ==
  /\ df # << >>
  /\ calendar_data' = CreateCalendarView(df, month_year)
  /\ calendar_data' # calendar_data
  /\ calls' = calls \cup {"calendar"}
  /\ UNCHANGED <<df, today, catVars, goalVars, resultVars, goalTabVars,
                 rendered_on, sideVars>>

CalendarNext ==
  \/ UploadLastMonth
  \/ \E day \in CalendarDays, entry \in CalendarEntries :
       AddTransaction(day, entry)
  \/ \E month_year \in {ThisMonth - 1, ThisMonth} :
       ShowCalendar(month_year)

SpecCalendar == CalendarInit /\ [][CalendarNext]_vars

\* ------------------------------------------------------------------------
\* A session whose script runs again: inputs and steps
\* ------------------------------------------------------------------------

\* The goals created in the session: target, current, days to the target.
SessionGoals == { <<6000, 0, 365>>, <<600, 100, 30>> }

\* The forecast horizon of the predictions tab.
SessionHorizon == 3

\* The session starts on the last day of the month after the last month a
\* statement can cover.
SessionStart == DateOf(MaxSessionMonths, 1) - 1

SessionInit ==
  /\ CatIdle /\ GoalIdle /\ TableIdle
  /\ today = SessionStart

\* An upload that adds one more month; every result is stale.
UploadHousehold(statement) ==
  /\ NextMonth(df) < MaxSessionMonths
  /\ df' = df \o MonthRows(NextMonth(df), statement)
  /\ calls' = {}
  /\ DiscardResults
  /\ UNCHANGED <<today, catVars, goalVars>>

\* The "Create Goal" button: create_goal with today's date; the script is
\* to run again.
CreateSessionGoal(target_amount, current_amount, offset) ==
  /\ df # << >>
  /\ Len(user_goals) < MaxGoals
  /\ user_goals' = Append(user_goals,
                          CreateGoalRecord("Goal", target_amount,
                                           today + offset, "Custom Goal",
                                           current_amount, today))
  /\ calls' = {}
  /\ DiscardResults
  /\ UNCHANGED <<df, today, budgets, catVars>>

\* A script run that recomputes only the health score of this month.
RenderThisMonthOnly ==
  /\ df # << >>
  /\ "session" \notin calls
  /\ CalculateHealthScore(CurrentMonthData(df, today)) # ValueError
  /\ health_data' = CalculateHealthScore(CurrentMonthData(df, today))
  /\ anomalies' = DetectSpendingAnomalies(df)
  /\ prediction' = PredictFutureSpending(df, SessionHorizon, today)
  /\ horizon' = SessionHorizon
  /\ alerts' = GenerateAlerts(df, budgets, today)
  /\ feasibility' =
       AsList([i \in 1..Len(user_goals) |->
                 AnalyzeGoalFeasibility(user_goals[i], df)])
  /\ strategies' =
       AsList([i \in 1..(IF Len(user_goals) < 2 THEN Len(user_goals) ELSE 2)
                 |-> GenerateSavingsStrategies(user_goals[i], df)])
  /\ calendar_data' = CreateCalendarView(df, MonthYear(today))
  /\ rendered_on' = today
  /\ calls' = {"session"}
  /\ UNCHANGED <<df, today, catVars, goalVars, sideVars>>

\* One run of the script with a table loaded: every tab calls its engine
\* (the statements of this session all have expenses, so that
\* calculate_health_score returns).
Render ==
  /\ df # << >>
  /\ "session" \notin calls
  /\ CalculateHealthScore(df) # ValueError
  /\ health_data' = CalculateHealthScore(df)
  /\ anomalies' = DetectSpendingAnomalies(df)
  /\ prediction' = PredictFutureSpending(df, SessionHorizon, today)
  /\ horizon' = SessionHorizon
  /\ alerts' = GenerateAlerts(df, budgets, today)
  /\ feasibility' =
       AsList([i \in 1..Len(user_goals) |->
                 AnalyzeGoalFeasibility(user_goals[i], df)])
  /\ strategies' =
       AsList([i \in 1..(IF Len(user_goals) < 2 THEN Len(user_goals) ELSE 2)
                 |-> GenerateSavingsStrategies(user_goals[i], df)])
  /\ calendar_data' = CreateCalendarView(df, MonthYear(today))
  /\ rendered_on' = today
  /\ calls' = {"session"}
  /\ UNCHANGED <<df, today, catVars, goalVars, sideVars>>

\* Midnight passes while the results stay on the screen.
Midnight ==
  /\ today < SessionStart + MaxDays
  /\ today' = today + 1
  /\ UNCHANGED <<user_goals, budgets, catVars, tableVars>>

SessionNext ==
  \/ \E statement \in HouseholdStatements : UploadHousehold(statement)
  \/ \E g \in SessionGoals : CreateSessionGoal(g[1], g[2], g[3])
  \/ Render
  \/ Midnight

SpecSession == SessionInit /\ [][SessionNext]_vars

\* ------------------------------------------------------------------------
\* Predictions tab with a year of history: inputs and steps
\* ------------------------------------------------------------------------

\* The food expense of the twelve months January to December of a year of
\* history: flat, rising, falling, and with a heavy December.
FlatYear == [i \in 1..12 |-> 200] @@ << >>

RisingYear == [i \in 1..12 |-> 100 + 10 * i] @@ << >>

FallingYear == [i \in 1..12 |-> 400 - 20 * i] @@ << >>

HolidayYear == [i \in 1..12 |-> IF i = 12 THEN 400 ELSE 200] @@ << >>

YearSeries == {FlatYear, RisingYear, FallingYear, HolidayYear}

\* The food expense of a month uploaded after the year.
SeasonAmounts == {200, 300}

\* The tab is opened from the 15th of the December the year ends with.
SeasonInit ==
  /\ CatIdle /\ GoalIdle /\ TableIdle
  /\ today = DateOf(11, 15)

\* The statement of a whole year, one food expense on the 5th of each month,
\* is uploaded.
UploadYear(series) ==
  /\ df = << >>
  /\ df' = Extend(AsList([m \in 1..12 |->
                    MonthRows(m - 1, <<Row(5, Pizza, -series[m])>>)]))
  /\ calls' = {}
  /\ DiscardResults
  /\ UNCHANGED <<today, catVars, goalVars>>

\* The statement of the month after the last one is uploaded, once that
\* month's expense is in the past.
AddSeasonMonth(amt) ==
  /\ df # << >>
  /\ NextMonth(df) < MaxSeasonMonths
  /\ DateOf(NextMonth(df), 5) <= today
  /\ df' = df \o MonthRows(NextMonth(df), <<Row(5, Pizza, -amt)>>)
  /\ calls' = {}
  /\ DiscardResults
  /\ UNCHANGED <<today, catVars, goalVars>>

\* A month passes before the tab is opened again.
MonthPasses ==
  /\ MonthYear(today) < MaxSeasonMonths
  /\ today' = DateOf(MonthYear(today) + 1, 15)
  /\ UNCHANGED <<user_goals, budgets, catVars, tableVars>>

SeasonNext ==
  \/ \E series \in YearSeries : UploadYear(series)
  \/ \E amt \in SeasonAmounts : AddSeasonMonth(amt)
  \/ MonthPasses
  \/ \E months_ahead \in Horizons : Predict(months_ahead)

SpecSeason == SeasonInit /\ [][SeasonNext]_vars

\* ------------------------------------------------------------------------
\* Anomaly section on a short history: inputs and steps
\* ------------------------------------------------------------------------

\* The food expense of a month of a short history, from usual to extreme.
ShortAmounts == {100, 150, 1000, 5000}

ShortInit ==
  /\ CatIdle /\ GoalIdle /\ TableIdle
  /\ today = DateOf(MaxShortMonths, 15)

\* A statement with one more month, holding one food expense, is uploaded.
AddShortMonth(amt) ==
  /\ NextMonth(df) < MaxShortMonths
  /\ df' = df \o MonthRows(NextMonth(df), <<Row(5, Pizza, -amt)>>)
  /\ calls' = {}
  /\ DiscardResults
  /\ UNCHANGED <<today, catVars, goalVars>>

ShortNext ==
  \/ \E amt \in ShortAmounts : AddShortMonth(amt)
  \/ DetectAnomalies

SpecShort == ShortInit /\ [][ShortNext]_vars

\* ------------------------------------------------------------------------
\* File upload: inputs and steps
\* ------------------------------------------------------------------------

\* The day of the upload.
UploadDay == DateOf(1, 15)

\* The date cells of a file: missing or unparseable, yesterday, the day of
\* the upload, the day after.
RawDates == {Missing, <<UploadDay - 1>>, <<UploadDay>>, <<UploadDay + 1>>}

\* The description cells: missing, blank, padded, plain.
RawDescriptions ==
  {Missing, <<<<" ", " ">>>>, <<<<" ">> \o Pizza \o <<" ">>>>, <<Salary>>}

\* The amount cells: missing, zero, an expense, an income.
RawAmounts == {Missing, <<0>>, <<-100>>, <<2500>>}

CleanInit ==
  /\ CatIdle /\ GoalIdle /\ TableIdle
  /\ today = UploadDay

\* One more row is in the file chosen for upload.
AddRawRow(date, desc, amt) ==
  /\ Len(raw_df) < MaxRawRows
  /\ "load_file" \notin calls
  /\ raw_df' = Append(raw_df,
                      [date |-> date, description |-> desc, amount |-> amt])
  /\ UNCHANGED <<today, catVars, goalVars, df, calls, resultVars,
                 goalTabVars, calendar_data, rendered_on, columns,
                 frames, chatVars>>

\* The upload handler: load_file cleans the file, categorize_transactions
\* adds the categories, and the result becomes the table of the session.
LoadFile(missing_as_text) ==
  /\ raw_df # << >>
  /\ "load_file" \notin calls
  /\ df' = CategorizeTransactions(
             CleanDataframe(raw_df, today, missing_as_text))
  /\ calls' = {"load_file"}
  /\ DiscardResults
  /\ UNCHANGED <<today, catVars, goalVars>>

CleanNext ==
  \/ \E date \in RawDates, desc \in RawDescriptions, amt \in RawAmounts :
       AddRawRow(date, desc, amt)
  \/ \E missing_as_text \in BOOLEAN : LoadFile(missing_as_text)

SpecClean == CleanInit /\ [][CleanNext]_vars

\* ------------------------------------------------------------------------
\* The table handed to the engines: inputs and steps
\* ------------------------------------------------------------------------

\* The month statements of the files uploaded.
FrameStatements == {ComfortStatement, LeanStatement, HouseholdAway}

\* The value of the category column of a file that has one.
FileCategory == "Imported"

\* The columns of a cleaned table without a category column.
cleaned_columns == session_columns \ {"category"}

\* The cleaned table of a file: the rows with the category column of the
\* file when it has one, and without a category otherwise.
CleanedTable(rows, with_category) ==
  IF with_category
    THEN [rows |-> AsList([i \in 1..Len(rows) |->
                     [rows[i] EXCEPT !.category = FileCategory]]),
          columns |-> session_columns]
    ELSE [rows |-> AsList([i \in 1..Len(rows) |->
                     [date |-> rows[i].date,
                      month_year |-> rows[i].month_year,
                      description |-> rows[i].description,
                      amount |-> rows[i].amount]]),
          columns |-> cleaned_columns]

\* The months the calendar tab can be asked for.
FrameViews == {0, 1, 2}

FrameInit ==
  /\ CatIdle /\ GoalIdle /\ TableIdle
  /\ today = DateOf(MaxFrameMonths, 1) - 1

\* The upload handler on a file with one more month: the cleaned table is
\* handed to categorize_transactions, and the table returned becomes the
\* table of the session.
UploadFile(statement, with_category) ==
  /\ NextMonth(df) < MaxFrameMonths
  /\ frames' = CategorizeFrames(
                 CleanedTable(df \o MonthRows(NextMonth(df), statement),
                              with_category))
  /\ df' = frames'.work.rows
  /\ columns' = frames'.work.columns
  /\ calls' = {"categorize"}
  /\ anomalies' = << >>
  /\ prediction' = DefaultPrediction(0)
  /\ horizon' = 0
  /\ alerts' = << >>
  /\ health_data' = NoHealthData
  /\ feasibility' = << >>
  /\ strategies' = << >>
  /\ calendar_data' = NoCalendarData
  /\ rendered_on' = 0
  /\ UNCHANGED <<today, catVars, goalVars, raw_df, chatVars>>

\* One run of the script with a table loaded: the health, prediction,
\* anomaly, alert and goal engines are handed the table of the session, and
\* then create_calendar_view for the month selected; what they leave in the
\* table is the table of the session afterwards.
RenderTabs(month_year) ==
  /\ df # << >>
  /\ "render" \notin calls \/ calendar_data # CreateCalendarView(df, month_year)
  /\ health_data' = CalculateHealthScore(df)
  /\ anomalies' = DetectSpendingAnomalies(df)
  /\ prediction' = PredictFutureSpending(df, SessionHorizon, today)
  /\ horizon' = SessionHorizon
  /\ alerts' = GenerateAlerts(df, budgets, today)
  /\ feasibility' =
       AsList([i \in 1..Len(user_goals) |->
                 AnalyzeGoalFeasibility(user_goals[i], df)])
  /\ strategies' =
       AsList([i \in 1..(IF Len(user_goals) < 2 THEN Len(user_goals) ELSE 2)
                 |-> GenerateSavingsStrategies(user_goals[i], df)])
  /\ calendar_data' = CreateCalendarView(df, month_year)
  /\ LET table == [rows |-> df, columns |-> columns]
         read == ReadOnlyFrames(table)
         view == CreateCalendarFrames(read.given, month_year)
     IN  /\ frames' = [before |-> table, given |-> view.given,
                       work |-> view.work]
         /\ df' = view.given.rows
         /\ columns' = view.given.columns
  /\ rendered_on' = today
  /\ calls' = {"render"}
  /\ UNCHANGED <<today, catVars, goalVars, raw_df, chatVars>>

FrameNext ==
  \/ \E statement \in FrameStatements, with_category \in BOOLEAN :
       UploadFile(statement, with_category)
  \/ \E month_year \in FrameViews : RenderTabs(month_year)

SpecFrame == FrameInit /\ [][FrameNext]_vars

\* ------------------------------------------------------------------------
\* Chat tab: inputs and steps
\* ------------------------------------------------------------------------

\* Questions typed into the chat tab.
AskTotal == <<"t", "o", "t", "a", "l">>

AskTypes == <<"t", "y", "p", "e", "s">>

AskHello == <<"h", "e", "l", "l", "o">>

AskTotalIncome == <<"T", "o", "t", "a", "l", " ", "i", "n", "c", "o", "m", "e", "?">>

Questions == {AskTotal, AskTypes, AskHello, AskTotalIncome}

\* What the call to the model does: it answers, or it raises.
ModelReplies == {[content |-> "answer"], APIError}

ChatStatements == {UsualStatement, IncomeOnlyStatement}

\* The "Ask" button of a loaded table: get_response(user_question,
\* vector_store, df). The search of the vector store returns a list, empty
\* when it fails, that goes into the prompt only.
Ask(user_query, reply) ==
  /\ df # << >>
  /\ Len(conversation_memory) < MaxMemory
  /\ LET out == GetResponse(user_query, df, columns, reply,
                            conversation_memory, today)
     IN  /\ response' = out.response
         /\ conversation_memory' = out.memory
  /\ calls' = IF reply = APIError THEN {"ask", "model_failed"} ELSE {"ask"}
  /\ UNCHANGED <<today, catVars, goalVars, df, resultVars, goalTabVars,
                 calendar_data, rendered_on, raw_df, columns, frames>>

ChatNext ==
  \/ \E statement \in ChatStatements : UploadStatement(statement)
  \/ \E user_query \in Questions, reply \in ModelReplies :
       Ask(user_query, reply)

SpecChat == PlanInit /\ [][ChatNext]_vars

\* ------------------------------------------------------------------------
\* Properties of the categorizer
\* ------------------------------------------------------------------------

\* The 13 labels of the category taxonomy.
Taxonomy ==
  {"Food & Dining", "Transportation", "Shopping", "Bills & Utilities",
   "Entertainment", "Health & Medical", "Travel", "Education", "Insurance",
   "Investment", "Income", "Transfer", "Other"}

\* The order in which the categories are consulted.
FixedOrder ==
  <<"Food & Dining", "Transportation", "Shopping", "Bills & Utilities",
    "Entertainment", "Health & Medical", "Travel", "Education",
    "Insurance", "Investment", "Income", "Transfer">>

\* The words that mark a positive amount as income.
IncomeWords ==
  { <<"s", "a", "l", "a", "r", "y">>,
    <<"p", "a", "y", "r", "o", "l", "l">>,
    <<"d", "e", "p", "o", "s", "i", "t">>,
    <<"r", "e", "f", "u", "n", "d">>,
    <<"c", "a", "s", "h", "b", "a", "c", "k">>,
    <<"d", "i", "v", "i", "d", "e", "n", "d">> }

\* Some keyword of the named category is a case-insensitive substring of d.
CategoryMatches(cat, d) ==
  \E m \in 1..Len(keyword_mappings) :
     /\ keyword_mappings[m].category = cat
     /\ \E k \in 1..Len(keyword_mappings[m].keywords) :
          Contains(Lower(d), keyword_mappings[m].keywords[k])

\* d mentions an income word and the amount is positive.
IsIncomeRow(d, a) ==
  a > 0 /\ \E w \in IncomeWords : Contains(Lower(d), w)

Netflix == <<"n", "e", "t", "f", "l", "i", "x">>

\* C1: a categorized row is 'Income' if its amount is positive and it
\* mentions an income word; otherwise it carries the first category, in
\* the fixed order, one of whose keywords occurs in the description;
\* otherwise 'Other'.  The label is always one of the 13 taxonomy labels.
C1_CategorizeContract ==
  progress = 1 =>
    /\ category \in Taxonomy
    /\ IF IsIncomeRow(description, amount)
       THEN category = "Income"
       ELSE IF \E i \in 1..Len(FixedOrder) :
                 CategoryMatches(FixedOrder[i], description)
            THEN \E i \in 1..Len(FixedOrder) :
                   /\ category = FixedOrder[i]
                   /\ CategoryMatches(FixedOrder[i], description)
                   /\ \A j \in 1..(i - 1) :
                        ~CategoryMatches(FixedOrder[j], description)
            ELSE category = "Other"

\* C1 witness: 'Salary Deposit' with amount 2500 has been categorized.
C1_Witness ==
  /\ progress = 1
  /\ amount = 2500
  /\ description = <<"S", "a", "l", "a", "r", "y", " ",
                     "D", "e", "p", "o", "s", "i", "t">>
  /\ category = "Income"

\* C2 as stated: every categorized row whose description contains
\* 'netflix', in any letter case, is labelled 'Bills & Utilities'.
C2_NetflixAlwaysBills ==
  (progress = 1 /\ Contains(Lower(description), Netflix))
    => category = "Bills & Utilities"

\* C2 amended: a categorized row whose description contains 'netflix' is
\* labelled 'Bills & Utilities' unless it is an income row or a keyword of
\* one of the three categories consulted earlier occurs in it.
C2_NetflixBillsUnlessEarlier ==
  (/\ progress = 1
   /\ Contains(Lower(description), Netflix)
   /\ ~IsIncomeRow(description, amount)
   /\ ~CategoryMatches("Food & Dining", description)
   /\ ~CategoryMatches("Transportation", description)
   /\ ~CategoryMatches("Shopping", description))
    => category = "Bills & Utilities"

\* C2 witness: 'NetFlix movie' matches Bills & Utilities and Entertainment
\* and has been labelled 'Bills & Utilities'.
C2_Witness ==
  /\ progress = 1
  /\ description = <<"N", "e", "t", "F", "l", "i", "x", " ",
                     "m", "o", "v", "i", "e">>
  /\ category = "Bills & Utilities"

\* ------------------------------------------------------------------------
\* Properties of the anomaly detector
\* ------------------------------------------------------------------------

\* The monthly expense totals of the table, oldest month first.
MonthlyTotals == MonthlyAbsSum(ExpenseRows(df))

\* The monthly expense totals of one category.
CategoryTotals(c) ==
  MonthlyAbsSum(SelectSeq(df, LAMBDA r : r.category = c /\ r.amount < 0))

\* n times the deviation of the i-th value from the mean of xs.
Deviation(xs, i) == Len(xs) * xs[i] - SumSeq(xs)

\* n * n times the sum of the squared deviations from the mean.
SquaredDeviations(xs) ==
  SumSeq(AsList([j \in 1..Len(xs) |-> Deviation(xs, j) * Deviation(xs, j)]))

\* z = |xs[i] - mean| / stdev is defined and greater than a / b, where
\* stdev^2 = (sum of squared deviations) / (n - 1).
ZAbove(xs, i, a, b) ==
  /\ SquaredDeviations(xs) > 0
  /\ b * b * Deviation(xs, i) * Deviation(xs, i) * (Len(xs) - 1)
       > a * a * SquaredDeviations(xs)

\* The anomalies reported for a month of a series.
Reported(kind, label, month) ==
  {k \in 1..Len(anomalies) :
     /\ anomalies[k].type = kind
     /\ anomalies[k].category = label
     /\ anomalies[k].month = month}

\* A series is reported exactly as the z-score rule with threshold a / b
\* prescribes.
SeriesReportedByRule(series, kind, label, a, b) ==
  \A i \in 1..Len(series) :
    LET hits == Reported(kind, label, series[i].month_year)
        xs == Values(series)
    IN  /\ (hits # {}) <=> (Len(series) >= 3 /\ ZAbove(xs, i, a, b))
        /\ Cardinality(hits) <= 1
        /\ \A k \in hits :
             /\ anomalies[k].amount = series[i].amount
             /\ anomalies[k].severity =
                  (IF ZAbove(xs, i, 3, 1) THEN "high" ELSE "medium")
        /\ (\A j \in 1..Len(xs) : xs[j] = xs[1]) => hits = {}

\* C6 as stated: when the monthly totals are 100, 100, 100, 100, 500 the
\* month of 500 is reported as a monthly_spending anomaly of severity high.
C6_SpikeOfFiveIsHigh ==
  ("anomalies" \in calls
     /\ Values(MonthlyTotals) = <<100, 100, 100, 100, 500>>)
    => \E k \in 1..Len(anomalies) :
         /\ anomalies[k].type = "monthly_spending"
         /\ anomalies[k].amount = 500
         /\ anomalies[k].severity = "high"

\* C6 amended: when the monthly totals are 100, 100, 100, 100, 500 no month
\* is reported as a monthly_spending anomaly (the z-score of the month of
\* 500 is 320 / 178.9, about 1.79, which is not above 2).
C6_SpikeOfFiveIsNotReported ==
  ("anomalies" \in calls
     /\ Values(MonthlyTotals) = <<100, 100, 100, 100, 500>>)
    => \A k \in 1..Len(anomalies) : anomalies[k].type # "monthly_spending"

\* C6 witness: the detector has run on a table with the monthly totals
\* 100, 100, 100, 100, 500 and has reported nothing.
C6_Witness ==
  /\ "anomalies" \in calls
  /\ Values(MonthlyTotals) = <<100, 100, 100, 100, 500>>
  /\ anomalies = << >>

\* C7: a month of the whole-portfolio series is reported exactly when the
\* series has at least 3 months and z > 2, a month of a category series
\* exactly when that series has at least 3 months and z > 2.5; the severity
\* is high exactly when z > 3, else medium; a series whose months are all
\* equal (stdev = 0) is not reported.
C7_AnomalyRule ==
  "anomalies" \in calls =>
    /\ SeriesReportedByRule(MonthlyTotals, "monthly_spending", "", 2, 1)
    /\ \A c \in Taxonomy :
         SeriesReportedByRule(CategoryTotals(c), "category_spending", c,
                              5, 2)
    /\ \A k \in 1..Len(anomalies) :
         \/ /\ anomalies[k].type = "monthly_spending"
            /\ anomalies[k].category = ""
            /\ \E i \in 1..Len(MonthlyTotals) :
                 MonthlyTotals[i].month_year = anomalies[k].month
         \/ /\ anomalies[k].type = "category_spending"
            /\ \E i \in 1..Len(CategoryTotals(anomalies[k].category)) :
                 CategoryTotals(anomalies[k].category)[i].month_year
                   = anomalies[k].month

\* C7 witness: on a series of 11 months the spike is reported with
\* severity high both for the whole portfolio and for its category.
C7_Witness ==
  /\ "anomalies" \in calls
  /\ Len(MonthlyTotals) = 11
  /\ \E k \in 1..Len(anomalies) :
       /\ anomalies[k].type = "monthly_spending"
       /\ anomalies[k].severity = "high"
  /\ \E k \in 1..Len(anomalies) :
       /\ anomalies[k].type = "category_spending"
       /\ anomalies[k].category = "Food & Dining"
       /\ anomalies[k].severity = "high"

\* A series of 7 months whose spike is above 2 but not above 2.5 is
\* reported for the whole portfolio only, with severity medium.
C7_WitnessMedium ==
  /\ "anomalies" \in calls
  /\ Len(MonthlyTotals) = 7
  /\ Len(anomalies) = 1
  /\ anomalies[1].type = "monthly_spending"
  /\ anomalies[1].severity = "medium"

\* C29: on a table whose whole-portfolio monthly expense series has 3, 4
\* or 5 months, no monthly_spending anomaly is reported, whatever the
\* amounts.
C29_NoMonthlyAnomalyUpToFiveMonths ==
  ("anomalies" \in calls /\ Len(MonthlyTotals) \in 3..5) =>
    \A i \in 1..Len(anomalies) : anomalies[i].type # "monthly_spending"

\* Five months, one of them fifty times the others, and nothing reported.
C29_Witness ==
  /\ "anomalies" \in calls
  /\ Values(MonthlyTotals) = <<100, 100, 100, 100, 5000>>
  /\ anomalies = << >>

\* ------------------------------------------------------------------------
\* Properties of the forecast
\* ------------------------------------------------------------------------

\* C5: on the monthly expense series 100, 200, 300, 400 (fewer than 12
\* months, a perfect line) the first predicted amount continues the line by
\* one step: it is exactly 500.
C5_LinearSeriesContinues ==
  (/\ "prediction" \in calls
   /\ Values(MonthlyTotals) = <<100, 200, 300, 400>>)
    => prediction.predictions[1] = Frac(500, 1)

\* Twice the covariance numerator of the series ys with its indices
\* 0..n-1: sum of (2i - (n+1)) * ys[i] over i in 1..n; the least-squares
\* slope has its sign.
SlopeSign(ys) ==
  SumSeq(AsList([i \in 1..Len(ys) |-> (2 * i - (Len(ys) + 1)) * ys[i]]))

\* C22: with fewer than 2 months of expense aggregates the forecast shown
\* is the neutral one (months_ahead amounts, all 0, trend 'stable',
\* confidence 50); with 2 or more months the trend is 'increasing' when the
\* slope is > 0 and 'decreasing' otherwise, never 'stable'.
C22_NeutralBelowTwoMonths ==
  "prediction" \in calls =>
    IF Len(MonthlyTotals) < 2
      THEN /\ Len(prediction.predictions) = horizon
           /\ \A i \in 1..horizon : prediction.predictions[i] = Frac(0, 1)
           /\ prediction.trend_direction = "stable"
           /\ prediction.confidence_level = 50
      ELSE prediction.trend_direction =
             IF SlopeSign(Values(MonthlyTotals)) > 0
               THEN "increasing" ELSE "decreasing"

\* A forecast of three months asked for on a table with one month of
\* expenses.
C22_Witness ==
  /\ "prediction" \in calls
  /\ Len(MonthlyTotals) = 1
  /\ horizon = 3
  /\ Len(prediction.predictions) = 3
  /\ prediction.trend_direction = "stable"

\* A forecast on a flat series of two or more months: 'decreasing'.
C22_WitnessFlat ==
  /\ "prediction" \in calls
  /\ Len(MonthlyTotals) >= 2
  /\ SlopeSign(Values(MonthlyTotals)) = 0
  /\ prediction.trend_direction = "decreasing"

\* C27: in every forecast shown, future_months and predictions have the
\* same length, and that length is months_ahead.
C27_PointsPaired ==
  "prediction" \in calls =>
    /\ Len(prediction.predictions) = horizon
    /\ Len(prediction.future_months) = horizon

\* The calendar month (1..12) of a month label.
LabelMonth(month_year) == (month_year % 12) + 1

\* C25: with at least 12 months of history the i-th predicted amount is the
\* fitted line at that point times the seasonal factor of the calendar
\* month of the point's own label, floored at 0; with fewer than 12 months
\* the factor is 1.0; every predicted amount is >= 0.
C25_FactorOfLabelMonth ==
  ("prediction" \in calls /\ Len(MonthlyTotals) >= 2) =>
    LET series == Values(MonthlyTotals)
        n == Len(series)
    IN  \A i \in 1..horizon :
          LET factor ==
                IF n >= 12
                  THEN seasonal_factors[LabelMonth(prediction.future_months[i])]
                  ELSE 100
          IN  /\ prediction.predictions[i] =
                   AdjustedPrediction(TrendSlope(series),
                                      TrendIntercept(series), n + i, factor)
              /\ FracGE(prediction.predictions[i], Frac(0, 1))

\* ------------------------------------------------------------------------
\* Properties of the goal engine
\* ------------------------------------------------------------------------

\* progress of a stored goal is at least p percent.
ProgressAtLeast(g, p) ==
  g.target_amount > 0 /\ g.current_amount * 100 >= p * g.target_amount

\* C10: the status given to a goal follows the fixed priority: progress
\* >= 100 -> Completed; else days_remaining < 0 -> Overdue; else
\* days_remaining < 30 -> Critical; else progress >= 75 -> On Track; else
\* progress >= 50 -> Behind; else Far Behind (progress is 0 for target 0).
C10_GoalStatusPriority ==
  \A i \in 1..Len(user_goals) :
    LET g == user_goals[i]
    IN  /\ (g.status = "Completed") <=> ProgressAtLeast(g, 100)
        /\ (g.status = "Overdue") <=>
             (~ProgressAtLeast(g, 100) /\ g.days_remaining < 0)
        /\ (g.status = "Critical") <=>
             (/\ ~ProgressAtLeast(g, 100)
              /\ g.days_remaining >= 0 /\ g.days_remaining < 30)
        /\ (g.status = "On Track") <=>
             (/\ ~ProgressAtLeast(g, 100) /\ g.days_remaining >= 30
              /\ ProgressAtLeast(g, 75))
        /\ (g.status = "Behind") <=>
             (/\ ~ProgressAtLeast(g, 75) /\ g.days_remaining >= 30
              /\ ProgressAtLeast(g, 50))
        /\ (g.status = "Far Behind") <=>
             (~ProgressAtLeast(g, 50) /\ g.days_remaining >= 30)

\* C10 witness: a goal whose target is reached and whose date has passed
\* has been created, and it is Completed rather than Overdue.
C10_Witness ==
  \E i \in 1..Len(user_goals) :
     /\ user_goals[i].current_amount = 150
     /\ user_goals[i].target_amount = 100
     /\ user_goals[i].days_remaining = -1
     /\ user_goals[i].status = "Completed"

\* The status of goal g computed from the date `day`.
StatusOn(g, day) ==
  IF ProgressAtLeast(g, 100) THEN "Completed"
  ELSE IF g.target_date - day < 0 THEN "Overdue"
  ELSE IF g.target_date - day < 30 THEN "Critical"
  ELSE IF ProgressAtLeast(g, 75) THEN "On Track"
  ELSE IF ProgressAtLeast(g, 50) THEN "Behind"
  ELSE "Far Behind"

\* C11: whenever a stored goal is read, its days_remaining and its status
\* are the ones computed from the date of the read: days_remaining is the
\* target date minus today, and the status follows from it (a goal that is
\* not completed and whose target date has passed is Overdue).
C11_StatusDerivedOnRead ==
  \A i \in 1..Len(user_goals) :
    /\ user_goals[i].days_remaining = user_goals[i].target_date - today
    /\ user_goals[i].status = StatusOn(user_goals[i], today)

\* The numbers create_goal derives for goal g, without the worked example.
DerivedAtCreation(g) ==
  LET days == g.target_date - g.created_date
      gap == g.target_amount - g.current_amount
  IN  /\ g.days_remaining = days
      /\ FracGE(g.months_remaining, Frac(1, 1))
      /\ days <= 0 => g.months_remaining = Frac(1, 1)
      /\ g.months_remaining = FracMax(Frac(1, 1), Frac(days * 100, 3044))
      /\ FracGE(g.monthly_savings_needed, Frac(0, 1))
      /\ g.monthly_savings_needed
            = Frac((IF gap > 0 THEN gap ELSE 0) * g.months_remaining.den,
                   g.months_remaining.num)
      /\ g.target_amount > 0
           => g.progress_percentage.num * g.target_amount
                = g.current_amount * 100 * g.progress_percentage.den
      /\ g.target_amount = 0 => g.progress_percentage = Frac(0, 1)

\* Goal g has target 6000, nothing saved, and a target date one year (365
\* days, twelve calendar months) after the day it was created.
IsYearGoal(g) ==
  /\ g.target_amount = 6000
  /\ g.current_amount = 0
  /\ g.target_date - g.created_date = 365

\* C12 as stated: months_remaining >= 1 also for a target date today or in
\* the past, monthly_savings_needed = max(0, (target - current) /
\* months_remaining) >= 0, progress = current / target * 100 (0 for target
\* 0), and the goal of 6000 due twelve months ahead needs 500 a month.
C12_YearGoalNeeds500 ==
  \A i \in 1..Len(user_goals) :
    /\ DerivedAtCreation(user_goals[i])
    /\ IsYearGoal(user_goals[i])
         => user_goals[i].monthly_savings_needed = Frac(500, 1)

\* C12 amended: the same derived numbers, and the goal of 6000 due in 365
\* days counts 365 / 30.44 months (fewer than twelve), so it needs
\* 6000 * 30.44 / 365 a month, which is more than 500 (about 500.38).
C12_DerivedNumbers ==
  \A i \in 1..Len(user_goals) :
    /\ DerivedAtCreation(user_goals[i])
    /\ IsYearGoal(user_goals[i])
         => /\ user_goals[i].monthly_savings_needed
                 = Frac(6000 * 3044, 36500)
            /\ FracGT(user_goals[i].monthly_savings_needed, Frac(500, 1))
            /\ ~FracGE(user_goals[i].months_remaining, Frac(12, 1))

\* C12 witness: the goal of 6000 due in 365 days has been created.
C12_Witness ==
  \E i \in 1..Len(user_goals) :
     /\ IsYearGoal(user_goals[i])
     /\ user_goals[i].monthly_savings_needed = Frac(6000 * 3044, 36500)

\* C12 second witness: a goal due the day before its creation and already
\* over its target counts one month and needs nothing.
C12_WitnessPastDate ==
  \E i \in 1..Len(user_goals) :
     /\ user_goals[i].days_remaining = -1
     /\ user_goals[i].current_amount = 150
     /\ user_goals[i].target_amount = 100
     /\ user_goals[i].months_remaining = Frac(1, 1)
     /\ user_goals[i].monthly_savings_needed = Frac(0, 1)

\* ------------------------------------------------------------------------
\* Properties of the feasibility analysis and the savings strategies
\* ------------------------------------------------------------------------

\* The mean of the monthly totals, 0 when the table has no such month.
MeanMonthly(totals) ==
  IF totals = << >> THEN Frac(0, 1) ELSE Frac(SumSeq(totals), Len(totals))

\* capacity = max(0, mean monthly income - mean monthly expense)
Capacity(rows) ==
  FracMax(Frac(0, 1),
          FracSub(MeanMonthly(MonthlySum(IncomeRows(rows))),
                  FracAbs(MeanMonthly(MonthlySum(ExpenseRows(rows))))))

\* The feasibility ladder of a capacity against a required saving.
Ladder(capacity, required) ==
  IF FracGE(capacity, required) THEN "Easy"
  ELSE IF FracGE(capacity, FracMul(required, Frac(8, 10))) THEN "Achievable"
  ELSE IF FracGE(capacity, FracMul(required, Frac(5, 10))) THEN "Challenging"
  ELSE "Difficult"

\* capacity / required * 100 clamped to [10, 100], for required > 0
Clamped(capacity, required) ==
  FracMin(Frac(100, 1),
          FracMax(Frac(10, 1),
                  FracMul(FracDiv(capacity, required), Frac(100, 1))))

\* C13: for every goal shown with the table, the feasibility is Easy when
\* capacity >= required, else Achievable when capacity >= 0.8 * required,
\* else Challenging when capacity >= 0.5 * required, else Difficult, with
\* capacity = max(0, mean monthly income - mean monthly expense) and
\* required = the goal's monthly_savings_needed; the success probability
\* is capacity / required * 100 clamped to [10, 100].
C13_FeasibilityLadder ==
  "goals" \in calls =>
    \A i \in 1..Len(user_goals) :
      LET capacity == Capacity(df)
          required == user_goals[i].monthly_savings_needed
      IN  /\ feasibility[i].required_monthly_savings = required
          /\ feasibility[i].feasibility = Ladder(capacity, required)
          /\ FracGE(feasibility[i].success_probability, Frac(10, 1))
          /\ FracGE(Frac(100, 1), feasibility[i].success_probability)
          /\ FracGT(required, Frac(0, 1))
               => feasibility[i].success_probability
                    = Clamped(capacity, required)

\* The expense total of each category of the table.
ExpenseTotals == CategoryAbsSum(ExpenseRows(df))

\* Category c is among the three categories with the largest expense
\* total: fewer than three categories have spent more.
AmongTopThree(c) ==
  /\ HasCategory(ExpenseTotals, c)
  /\ Cardinality({k \in 1..Len(ExpenseTotals) :
                    ExpenseTotals[k].amount > AtCategory(ExpenseTotals, c)})
       < 3

\* Strategy s is a 15% cut, 'Reduce <category> Spending'.
IsReduce(s) == s.strategy = "Reduce " \o s.category \o " Spending"

\* C14: every 'Reduce <category> Spending' strategy in a list shown for a
\* goal names a category that is among the top 3 by expense amount.
C14_ReduceNamesTopThree ==
  "goals" \in calls =>
    \A i \in 1..Len(strategies) :
      \A k \in 1..Len(strategies[i]) :
        IsReduce(strategies[i][k]) => AmongTopThree(strategies[i][k].category)

\* The category-cut strategies generated for a goal: the 15% cuts and the
\* 25% cuts, before ranking.
CategoryCuts(goal) ==
  LET monthly_shortage ==
        FracSub(goal.monthly_savings_needed, CalculateCurrentSavings(df))
  IN  ReduceStrategies(ExpenseTotals, df, monthly_shortage)
        \o CutStrategies(ExpenseTotals, df)

\* C15: a list shown for a goal includes 'Combination Approach' only when
\* at least two category-cut strategies were generated, and its
\* potential_savings is then the sum of two of the category-cut strategies
\* (never a sum that includes 'Increase Income').
C15_CombinationOfTwoCuts ==
  "goals" \in calls =>
    \A i \in 1..Len(strategies) :
      \A k \in 1..Len(strategies[i]) :
        strategies[i][k].strategy = "Combination Approach" =>
          LET cuts == CategoryCuts(user_goals[i])
          IN  /\ Len(cuts) >= 2
              /\ \E a, b \in 1..Len(cuts) :
                   /\ a # b
                   /\ strategies[i][k].potential_savings
                        = FracAdd(cuts[a].potential_savings,
                                  cuts[b].potential_savings)

\* The ease of a difficulty: Easy before Medium before Hard.
Ease(difficulty) ==
  CASE difficulty = "Easy" -> 3
    [] difficulty = "Medium" -> 2
    [] difficulty = "Hard" -> 1

\* C16: a list shown for a goal has at most 5 strategies, ordered by
\* potential_savings descending, and of two neighbours with equal
\* potential_savings the earlier one is at least as easy.
C16_RankedBySavingsThenEase ==
  "goals" \in calls =>
    \A i \in 1..Len(strategies) :
      /\ Len(strategies[i]) <= 5
      /\ \A k \in 1..(Len(strategies[i]) - 1) :
           LET s == strategies[i][k]
               t == strategies[i][k + 1]
           IN  /\ FracGE(s.potential_savings, t.potential_savings)
               /\ s.potential_savings = t.potential_savings
                    => Ease(s.difficulty) >= Ease(t.difficulty)

\* A float that is neither NaN nor infinite.
IsFinite(x) == x.den # 0

\* C21: every numeric field of every analyze_goal_feasibility result and
\* every percentage of a budget alert is a finite, defined number, whatever
\* the table, the goal and the budgets.
C21_NumericOutputsFinite ==
  /\ "goals" \in calls =>
       \A i \in 1..Len(feasibility) :
         /\ IsFinite(feasibility[i].current_monthly_savings)
         /\ IsFinite(feasibility[i].required_monthly_savings)
         /\ IsFinite(feasibility[i].monthly_shortage)
         /\ IsFinite(feasibility[i].success_probability)
  /\ \A i \in 1..Len(alerts) :
       alerts[i].type \in {"budget_exceeded", "budget_warning"}
         => IsFinite(alerts[i].percentage)

\* C30: in every analyze_goal_feasibility result, feasibility is 'Easy'
\* exactly when monthly_shortage is 0 and exactly when success_probability
\* is 100.
C30_FeasibilityOutputsAgree ==
  "goals" \in calls =>
    \A i \in 1..Len(feasibility) :
      LET easy == feasibility[i].feasibility = "Easy"
      IN  /\ easy <=> feasibility[i].monthly_shortage = Frac(0, 1)
          /\ easy <=> feasibility[i].success_probability = Frac(100, 1)

\* ------------------------------------------------------------------------
\* Properties of the financial calendar
\* ------------------------------------------------------------------------

\* The month the calendar shown is of.
ViewedMonth == (calendar_data.year - EpochYear) * 12 + calendar_data.month - 1

\* The transactions of the table dated the given day of the viewed month.
RowsOn(day) ==
  SelectSeq(df, LAMBDA r : r.date = DateOf(ViewedMonth, day))

\* The expense total of those transactions.
ExpenseOn(day) == Abs(SumAmount(ExpenseRows(RowsOn(day))))

\* One of those transactions mentions a recurring bill.
BillOn(day) ==
  \E i \in 1..Len(RowsOn(day)) :
    \E word \in {<<"b", "i", "l", "l">>,
                 <<"p", "a", "y", "m", "e", "n", "t">>,
                 <<"s", "u", "b", "s", "c", "r", "i", "p", "t", "i", "o", "n">>,
                 <<"r", "e", "n", "t">>,
                 <<"m", "o", "r", "t", "g", "a", "g", "e">>,
                 <<"i", "n", "s", "u", "r", "a", "n", "c", "e">>} :
      Contains(Lower(RowsOn(day)[i].description), word)

\* The day type by the fixed priority.
TypeOn(day) ==
  IF RowsOn(day) = << >> THEN "inactive"
  ELSE IF IncomeRows(RowsOn(day)) # << >> THEN "income_day"
  ELSE IF ExpenseOn(day) > 200 THEN "high_spending"
  ELSE IF BillOn(day) THEN "bills_day"
  ELSE IF ExpenseOn(day) > 0 THEN "regular_spending"
  ELSE "inactive"

\* The cells of the calendar matrix that show the given day.
CellsOf(day) ==
  {c \in {calendar_data.calendar_matrix[w][k] :
            w \in 1..Len(calendar_data.calendar_matrix), k \in 1..7} :
     c.day = day}

\* C17: for every day of the viewed month the day type is decided in the
\* fixed priority: no transactions -> inactive; any positive amount ->
\* income_day; else expense total > 200 -> high_spending; else a
\* description containing bill, payment, subscription, rent, mortgage or
\* insurance -> bills_day; else expense total > 0 -> regular_spending; else
\* inactive. Each day has one cell in the matrix, which carries this type,
\* and so does the day's entry of the daily summary.
C17_DayTypePriority ==
  "calendar" \in calls =>
    \A day \in 1..DaysInMonth(ViewedMonth) :
      /\ Cardinality(CellsOf(day)) = 1
      /\ \A c \in CellsOf(day) : c.type = TypeOn(day)
      /\ (day \in DOMAIN calendar_data.daily_summary) <=> RowsOn(day) # << >>
      /\ day \in DOMAIN calendar_data.daily_summary
           => calendar_data.daily_summary[day].day_type = TypeOn(day)

\* C17 witness: the calendar shown has a day with both an income and more
\* than 200 of expenses, which is an income_day.
C17_Witness ==
  /\ "calendar" \in calls
  /\ \E day \in DOMAIN calendar_data.daily_summary :
       /\ calendar_data.daily_summary[day].total_income > 0
       /\ calendar_data.daily_summary[day].total_expense > 200
       /\ calendar_data.daily_summary[day].day_type = "income_day"

\* C17 second witness: the calendar shown has a bills_day with expenses of
\* exactly 200 next to a high_spending day.
C17_WitnessBoundary ==
  /\ "calendar" \in calls
  /\ \E day \in DOMAIN calendar_data.daily_summary :
       /\ calendar_data.daily_summary[day].total_expense = 200
       /\ calendar_data.daily_summary[day].day_type = "bills_day"
  /\ \E day \in DOMAIN calendar_data.daily_summary :
       calendar_data.daily_summary[day].day_type = "high_spending"

\* C18: in the month statistics of the calendar shown, daily_avg_expense
\* times the number of distinct spending days is the month's total
\* expense, whenever there is a spending day.
C18_AverageOverSpendingDays ==
  "calendar" \in calls =>
    LET stats == calendar_data.month_stats
    IN  stats.spending_days > 0 =>
          stats.daily_avg_expense.num * stats.spending_days
            = stats.total_expense * stats.daily_avg_expense.den

\* ------------------------------------------------------------------------
\* Properties of repeated calls
\* ------------------------------------------------------------------------

\* A call now of the engines that read the table only returns what the
\* session shows.
TableEnginesRepeat ==
  /\ health_data = CalculateHealthScore(df)
  /\ anomalies = DetectSpendingAnomalies(df)
  /\ prediction = PredictFutureSpending(df, SessionHorizon, today)
  /\ Len(feasibility) = Len(user_goals)
  /\ \A i \in 1..Len(user_goals) :
       feasibility[i] = AnalyzeGoalFeasibility(user_goals[i], df)

\* A call of the engines that read the clock, made on the given day,
\* returns what the session shows.
ClockEnginesRepeatOn(day) ==
  /\ alerts = GenerateAlerts(df, budgets, day)
  /\ calendar_data = CreateCalendarView(df, MonthYear(day))

\* create_goal called on the given day with the arguments of goal g
\* returns g.
GoalRepeatsOn(g, day) ==
  g = CreateGoalRecord(g.name, g.target_amount, g.target_date, g.type,
                       g.current_amount, day)

PriorityOf(type) ==
  CASE type = "budget_exceeded" -> 10
    [] type = "spending_spike" -> 9
    [] type = "budget_warning" -> 8
    [] type = "unusual_transaction" -> 7
    [] type = "category_overspend" -> 6
    [] type = "upward_trend" -> 5
    [] type = "missing_recurring" -> 3
    [] OTHER -> 1

\* Number of alerts of a list with a given priority.
CountPriority(list, p) ==
  Cardinality({i \in 1..Len(list) : PriorityOf(list[i].type) = p})

\* The alerts the six checks produce for the present table and budgets,
\* before they are sorted and cut.
Generated == CollectAlerts(df, budgets, today)

\* C3: the list returned by generate_alerts has at most 10 alerts, is in
\* non-increasing order of the type priority, holds only generated alerts,
\* and every generated alert left out has a priority no higher than every
\* alert kept; a budget_warning precedes a missing_recurring of the same
\* result.
C3_TopTenByPriority ==
  "alerts" \in calls =>
    LET generated == Generated
        kept == [p \in 1..10 |-> CountPriority(alerts, p)] @@ << >>
        made == [p \in 1..10 |-> CountPriority(generated, p)] @@ << >>
    IN  /\ Len(alerts) <= 10
        /\ \A i, j \in 1..Len(alerts) :
             i < j =>
               PriorityOf(alerts[i].type) >= PriorityOf(alerts[j].type)
        /\ Len(alerts) = (IF Len(generated) < 10 THEN Len(generated)
                          ELSE 10)
        /\ \A i \in 1..Len(alerts) :
             \E j \in 1..Len(generated) : generated[j] = alerts[i]
        /\ \A p \in 1..10 :
             /\ kept[p] <= made[p]
             /\ kept[p] < made[p]
                  => \A i \in 1..Len(alerts) :
                       PriorityOf(alerts[i].type) >= p
        /\ \A i, j \in 1..Len(alerts) :
             (/\ alerts[i].type = "budget_warning"
              /\ alerts[j].type = "missing_recurring") => i < j

\* More than 10 alerts were generated, and the result holds a budget
\* warning and a missing recurring expense.
C3_Witness ==
  /\ "alerts" \in calls
  /\ Len(Generated) > 10
  /\ \E i \in 1..Len(alerts) : alerts[i].type = "budget_warning"
  /\ \E i \in 1..Len(alerts) : alerts[i].type = "missing_recurring"
  /\ \E i \in 1..Len(alerts) : alerts[i].type = "budget_exceeded"

\* The rank of a severity: high 3, medium 2, low 1.
SeverityRank(severity) ==
  CASE severity = "high" -> 3
    [] severity = "medium" -> 2
    [] OTHER -> 1

\* Number of alerts of a list with a given severity.
CountSeverity(list, severity) ==
  Cardinality({i \in 1..Len(list) : list[i].severity = severity})

\* C28: in every list returned by generate_alerts no alert comes before an
\* alert of higher severity, and when the cap at 10 leaves out a
\* high-severity alert every alert kept is of high severity.
C28_HighSeverityFirst ==
  "alerts" \in calls =>
    /\ \A i, j \in 1..Len(alerts) :
         i < j => SeverityRank(alerts[i].severity)
                    >= SeverityRank(alerts[j].severity)
    /\ CountSeverity(alerts, "high") < CountSeverity(Generated, "high")
         => \A i \in 1..Len(alerts) : alerts[i].severity = "high"

\* More than 10 alerts were generated; the result holds an exceeded budget,
\* then a spending spike of medium severity, then a low-severity alert.
C28_Witness ==
  /\ "alerts" \in calls
  /\ Len(Generated) > 10
  /\ \E i, j, k \in 1..Len(alerts) :
       /\ i < j /\ j < k
       /\ alerts[i].type = "budget_exceeded"
       /\ alerts[j].type = "spending_spike"
       /\ alerts[j].severity = "medium"
       /\ alerts[k].severity = "low"

\* A spending spike of high severity next to a budget warning.
C28_WitnessHighSpike ==
  /\ "alerts" \in calls
  /\ \E i, j \in 1..Len(alerts) :
       /\ alerts[i].type = "spending_spike"
       /\ alerts[i].severity = "high"
       /\ alerts[j].type = "budget_warning"

\* The expenses of the current month in a category, and their total.
CurrentExpenses(c) ==
  SelectSeq(df, LAMBDA r : /\ r.month_year = MonthYear(today)
                           /\ r.amount < 0
                           /\ r.category = c)

Spent(c) == -SumAmount(CurrentExpenses(c))

\* The budget alerts of the result about a category.
BudgetAlerts(c) ==
  SelectSeq(alerts, LAMBDA a : /\ a.type \in {"budget_exceeded",
                                              "budget_warning"}
                               /\ a.category = c)

\* The one budget alert due for a total spent against a budget.
IsDueAlert(list, spent, budget) ==
  /\ Len(list) = 1
  /\ IF spent >= budget
       THEN list[1].type = "budget_exceeded" /\ list[1].severity = "high"
       ELSE list[1].type = "budget_warning" /\ list[1].severity = "medium"

\* C4 as stated: for each (category, budget) pair, exactly one budget alert
\* when the current-month expense total of the category is at least 80% of
\* the budget (budget_exceeded/high from 100%, else budget_warning/medium),
\* none below 80%, and none for a category absent from budgets.
C4_BudgetAlertFromEightyPercent ==
  "alerts" \in calls =>
    /\ \A k \in 1..Len(budgets) :
         LET c == budgets[k].category
             budget == budgets[k].budget
         IN  IF Spent(c) * 100 >= 80 * budget
               THEN IsDueAlert(BudgetAlerts(c), Spent(c), budget)
               ELSE BudgetAlerts(c) = << >>
    /\ \A c \in Taxonomy :
         ~HasBudget(budgets, c) => BudgetAlerts(c) = << >>

\* C4, amended: the same for each pair whose category has at least one
\* expense in the current month; a budgeted category without an expense in
\* the current month gets no budget alert, whatever its budget.
C4_BudgetAlertForSpendingCategory ==
  "alerts" \in calls =>
    /\ \A k \in 1..Len(budgets) :
         LET c == budgets[k].category
             budget == budgets[k].budget
         IN  IF CurrentExpenses(c) # << >> /\ Spent(c) * 100 >= 80 * budget
               THEN IsDueAlert(BudgetAlerts(c), Spent(c), budget)
               ELSE BudgetAlerts(c) = << >>
    /\ \A c \in Taxonomy :
         ~HasBudget(budgets, c) => BudgetAlerts(c) = << >>

\* One budget at exactly 80% gives a warning while a budget of 0 for a
\* category without an expense in the current month gives nothing.
C4_Witness ==
  /\ "alerts" \in calls
  /\ \E k \in 1..Len(budgets) :
       /\ Spent(budgets[k].category) * 100 = 80 * budgets[k].budget
       /\ budgets[k].budget > 0
       /\ Len(BudgetAlerts(budgets[k].category)) = 1
  /\ \E k \in 1..Len(budgets) :
       /\ Spent(budgets[k].category) >= budgets[k].budget
       /\ budgets[k].budget > 0
       /\ Len(BudgetAlerts(budgets[k].category)) = 1

\* A budget of 0 for a category without an expense in the current month.
C4_WitnessZeroBudget ==
  /\ "alerts" \in calls
  /\ \E k \in 1..Len(budgets) :
       /\ budgets[k].budget = 0
       /\ CurrentExpenses(budgets[k].category) = << >>
       /\ BudgetAlerts(budgets[k].category) = << >>

\* ------------------------------------------------------------------------
\* Properties of the health scorer
\* ------------------------------------------------------------------------

\* 0 <= x <= 100
InPercentRange(x) == x.den > 0 /\ 0 <= x.num /\ x.num <= 100 * x.den

\* C8: in every result of calculate_health_score each of the six component
\* scores is in [0,100], the six weights sum to 1.0 (100 hundredths), and
\* total_score is in [0,100].
C8_ScoresInRange ==
  "health" \in calls =>
    /\ DOMAIN health_data.component_scores
         = {ScoreKeys[k] : k \in 1..Len(ScoreKeys)}
    /\ Len(ScoreKeys) = 6
    /\ \A k \in 1..Len(ScoreKeys) :
         InPercentRange(health_data.component_scores[ScoreKeys[k]])
    /\ SumSeq([k \in 1..Len(ScoreKeys) |-> score_weights[ScoreKeys[k]]])
         = 100
    /\ InPercentRange(health_data.total_score)

\* A result whose category balance is held at its floor of 40 while other
\* components reach 100.
C8_Witness ==
  /\ "health" \in calls
  /\ health_data.component_scores.category_balance = Frac(40, 1)
  /\ health_data.component_scores.savings_rate = Frac(100, 1)
  /\ health_data.total_score.num > 0

\* A result in which every component and the total are 100.
C8_WitnessPerfect ==
  /\ "health" \in calls
  /\ health_data.total_score = Frac(100, 1)

\* The letter of the threshold table for a total.
LetterFor(total) ==
  CASE total.num >= 90 * total.den -> "A+"
    [] total.num < 90 * total.den /\ total.num >= 85 * total.den -> "A"
    [] total.num < 85 * total.den /\ total.num >= 80 * total.den -> "B+"
    [] total.num < 80 * total.den /\ total.num >= 75 * total.den -> "B"
    [] total.num < 75 * total.den /\ total.num >= 70 * total.den -> "C+"
    [] total.num < 70 * total.den /\ total.num >= 65 * total.den -> "C"
    [] total.num < 65 * total.den /\ total.num >= 60 * total.den -> "D+"
    [] total.num < 60 * total.den /\ total.num >= 55 * total.den -> "D"
    [] OTHER -> "F"

\* C20: calculate_health_score never raises on a non-empty table; for a
\* table without any expense it returns a score built from the neutral
\* defaults (spending consistency 75, category balance 70, debt
\* management 80).
C20_HealthScoreNeverRaises ==
  /\ "health_raised" \notin calls
  /\ ("health" \in calls /\ ExpenseRows(df) = << >>)
       => /\ health_data.component_scores.spending_consistency = Frac(75, 1)
          /\ health_data.component_scores.category_balance = Frac(70, 1)
          /\ health_data.component_scores.debt_management = Frac(80, 1)

\* C9: in every result the grade is the letter the threshold table assigns
\* to the reported total_score (the total rounded to 1 decimal); a result
\* with total_score = 90.0 has grade "A+".
C9_GradeMatchesReportedTotal ==
  "health" \in calls => health_data.grade = LetterFor(health_data.total_score)

\* ------------------------------------------------------------------------
\* Properties of the file upload
\* ------------------------------------------------------------------------

\* A row of the file with a date up to the day of the upload, an amount
\* other than zero and a description that is neither missing nor blank.
RawRowValid(r) ==
  /\ r.date # Missing /\ r.date[1] <= today
  /\ r.amount # Missing /\ r.amount[1] # 0
  /\ r.description # Missing /\ Strip(r.description[1]) # << >>

\* C24: every row that survives cleaning has a date not later than the
\* ingestion time, a non-zero amount and a trimmed, non-empty description,
\* and the rows whose description is missing or blank in the file do not
\* survive.
C24_CleanRowsWellFormed ==
  "load_file" \in calls =>
    /\ \A i \in 1..Len(df) :
         /\ df[i].date <= today
         /\ df[i].amount # 0
         /\ df[i].description = Strip(df[i].description)
         /\ df[i].description # << >>
    /\ \A i \in 1..Len(raw_df) :
         (raw_df[i].description = Missing
            \/ Strip(raw_df[i].description[1]) = << >>)
           => \A k \in 1..Len(df) : df[k].description
                                      \notin {<< >>, NanText}

\* ------------------------------------------------------------------------
\* Properties of the table handed to the engines
\* ------------------------------------------------------------------------

\* C23: after every engine call the table handed to it has the rows, the
\* columns and the values it had before: the table of the session after a
\* run of the tabs, and the cleaned table after categorize_transactions,
\* which returns a new table with the new categories.
C23_EnginesLeaveTable ==
  /\ calls # {} => frames.given = frames.before
  /\ "render" \in calls
       => /\ df = frames.before.rows
          /\ columns = frames.before.columns
  /\ "categorize" \in calls
       => /\ df = frames.work.rows
          /\ "category" \in frames.work.columns
          /\ \A i \in 1..Len(df) :
               df[i].category =
                 CategorizeSingleTransaction(df[i].description, df[i].amount)

\* The calendar engine has written is_weekend to its copy of the month and
\* the table of the session has no such column.
C23_Witness ==
  /\ "render" \in calls
  /\ frames.work.rows # << >>
  /\ "is_weekend" \in frames.work.columns
  /\ "is_weekend" \notin columns
  /\ \A i \in 1..Len(df) : "is_weekend" \notin DOMAIN df[i]

\* The categorizer has returned new categories and the table it was given
\* keeps the categories of the file.
C23_WitnessCategorize ==
  /\ "categorize" \in calls
  /\ frames.given.rows # << >>
  /\ "category" \in frames.given.columns
  /\ \A i \in 1..Len(frames.given.rows) :
       /\ frames.given.rows[i].category = FileCategory
       /\ frames.work.rows[i].category # FileCategory

\* ------------------------------------------------------------------------
\* Properties of the chat
\* ------------------------------------------------------------------------

\* The sentences of the rule-based fallback.
FallbackKinds == {"you_spent", "highest_category", "rephrase"}

\* C26: get_response never raises; whenever the call to the model fails it
\* returns the rule-based fallback text, not an error message, and appends
\* exactly one entry to conversation_memory; and it returns an apology
\* exactly when another step fails, leaving conversation_memory unchanged.
C26_FallbackOnModelFailure ==
  [][/\ response' # ValueError
     /\ "model_failed" \in calls' =>
          /\ response'.kind \in FallbackKinds
          /\ Len(conversation_memory') = Len(conversation_memory) + 1
          /\ conversation_memory'[Len(conversation_memory')].response
               = response'
     /\ ("ask" \in calls' /\ response'.kind = "apology") =>
          conversation_memory' = conversation_memory]_vars

====
